---- MODULE Spec2Model ----
(***************************************************************************)
(* A model of the transaction core of the Qubic SDK:                       *)
(*   - TxQueue (tx/tx-queue.ts): the per-source transaction queue,         *)
(*   - createTxConfirmationHelpers (tx/confirm.ts): the confirmation loop, *)
(*   - createTransactionHelpers (transactions.ts): sendAndConfirm,         *)
(*   - createLogStream (bob/log-stream.ts): the log subscription engine,   *)
(*   - createQbiHelpers (qbi.ts): the query of a contract function, the    *)
(*     procedure calls, the registry and the codec validation,             *)
(*   - createContractHelpers (contracts.ts): queryRaw and its retries,     *)
(*   - openSeedVault (vault.ts): the encrypted seed vault and its lock,    *)
(*   - createTickHelpers (tick.ts): the suggested target tick.             *)
(* Every async function is cut at its awaits: one action per synchronous   *)
(* run between two suspension points.                                      *)
(***************************************************************************)
EXTENDS Integers, Sequences, FiniteSets, TLC

\* ------------------------------------------------------------------ bounds
\* Number of enqueue calls made on the queue.
MaxCalls == 3
\* Largest tick number (target ticks and last-processed-tick responses).
MaxTick == 2
\* Last instant of the clock (milliseconds since the wait started).
MaxTime == 3
\* Number of getLastProcessedTick calls one confirmation wait may issue.
MaxPolls == 3
\* Number of sendAndConfirm calls made on the transaction helpers.
MaxSends == 2
\* Number of subscriptions declared in the configuration of a log stream.
MaxSubs == 2
\* Number of outbound messages the user of a log stream requests.
MaxRequests == 2
\* Number of frames the socket of a log stream delivers, and of its error events.
MaxFrames == 1
\* Largest log id and tick number carried by a frame or a cursor.
MaxVal == 1
\* Number of query calls made on a contract handle.
MaxQueries == 2
\* Largest byte length of a query input and of a declared inputSize.
MaxBytes == 2
\* Number of procedure calls made on a contract handle.
MaxProcs == 2
\* Number of interface files handed to createQbiRegistry.
MaxFiles == 2
\* Number of contract lookups made through the helpers.
MaxLookups == 1
\* Largest number of retries a queryRaw call or its defaults ask for.
MaxRetries == 2
\* Number of openSeedVault calls made on the path of the vault.
MaxOpens == 3
\* Number of addSeed, rotatePassphrase and importEncrypted calls made on the vault:
\* each reads the clock, which has advanced since the one before.
MaxVaultOps == 3
\* Number of entries of an export handed to importEncrypted.
MaxImported == 2
\* Last instant of the clock of the vault lock, in units of 100 ms.
MaxLockTime == 4
\* Number of openSeedVault calls each opener of the locked path makes.
MaxLockOpens == 1
\* Number of enqueue calls in the runs that are checked for progress.
MaxLiveCalls == 2
\* Number of incoming frames in the runs that follow one frame after another.
MaxArrivals == 2
\* Largest offset of the tick helpers: guardrails, default and input.
MaxOffset == 2
\* Number of getSuggestedTargetTick calls made on the tick helpers.
MaxTickCalls == 2
\* addSeed and save calls made on the handle whose persists are followed step by step.
MaxPersistCalls == 2

Sources == {"A", "B"}
Ticks == 1..MaxTick
Policies == {"waitForConfirm", "reject", "replaceHigherTick"}

VARIABLES
  \* ---- TxQueue
  policy,           \* #policy
  activeBySource,   \* #activeBySource: source -> call id of the active item, 0 = no entry
  itemsBySource,    \* #itemsBySource: source -> sequence of item ids, in push order
  calls,            \* one record per enqueue call, in arrival order (see NewCall)
  \* ---- waitForConfirmedTransaction
  cpc,                     \* position of the wait: idle, start, loop, awaitTick, awaitTx, sleep, done
  targetTick,              \* input.targetTick
  timeoutMs,               \* input.timeoutMs
  pollIntervalMs,          \* input.pollIntervalMs
  reachedTargetTick,       \* local of the same name
  sawNotFoundAfterTarget,  \* local of the same name
  aborted,                 \* signal.aborted of the combined signal
  firedAt,                 \* where the wait stood when the signal fired, "never" if it has not
  now,                     \* Date.now() - start
  wakeAt,                  \* instant the pending setTimeout of sleep fires
  polls,                   \* getLastProcessedTick calls issued so far
  outcome,                 \* how the wait ended: none, or the record / error class
  \* ---- what the RPC server saw of the wait (as a mock server records it)
  seenTarget,              \* a getLastProcessedTick response >= targetTick was delivered
  seen404AfterTarget,      \* a 404 was delivered after such a response
  fetchAfterTarget,        \* the last getTransactionByHash was issued after such a response
  lastResponse,            \* the last RPC response delivered to the wait
  \* ---- createTransactionHelpers
  txQueueConfigured,       \* createSdk handed a TxQueue to createTransactionHelpers
  spc,                     \* position of sendAndConfirm: idle, build, broadcast, confirm, done
  sends,                   \* sendAndConfirm calls made so far
  sendSource,              \* identity of input.fromSeed
  builtTxId,               \* built.txId, computed locally from the signed bytes
  builtTargetTick,         \* built.targetTick
  broadcastTxId,           \* broadcast.transactionId, as the broadcast endpoint returned it
  waitTxId,                \* txId handed to waitForConfirmation
  sendOutcome,             \* how the last sendAndConfirm ended: none, sent, or the error
  \* ---- createLogStream: configuration
  subscriptions,           \* config.subscriptions
  configCursor,            \* config.lastLogId, config.lastTick
  hasStore,                \* config.cursorStore is set
  store,                   \* what the cursor store holds: key -> cursor
  \* ---- createLogStream: outbound side
  socketState,             \* connecting, open, closed
  open,                    \* local `open`
  pending,                 \* local `pending`
  sent,                    \* texts passed to socket.send, in order
  requested,               \* messages the user asked for, in order
  bpc,                     \* position of bootstrapSubscriptions: idle, lookup, done, failed
  withCursor,              \* local of the same name
  bootMessages,            \* messages bootstrapSubscriptions handed to sendMessage
  bootSent,                \* times the bootstrap messages were passed to the socket
  \* ---- createLogStream: inbound side
  events,                  \* message events delivered so far
  lastFrame,               \* the frame of the last message event
  effects,                 \* callbacks and store calls made for it, in order
  writeOutcome,            \* how cursorStore.set ended for it: none, ok, threw, rejected
  onErrorCalls,            \* calls of config.onError
  uncaught,                \* exceptions and rejections nobody handled
  dropped,                 \* incoming frames that did not parse, so far
  \* ---- QbiContractHandle.query
  qpc,                     \* position of query: idle, awaitRaw, done
  queries,                 \* query calls made so far
  contractIndex,           \* file.contract.contractIndex
  entryInputSize,          \* entry.inputSize of the function the last query named
  inputByteLength,         \* inputBytes.byteLength of the last query, once materialized
  allowSizeMismatch,       \* input.allowSizeMismatch of the last query
  queryOutcome,            \* how the last query ended: none, result, or the error class
  rawCalls,                \* contracts.queryRaw calls issued so far
  \* ---- QbiContractHandle: procedures
  transactionsConfigured,  \* config.transactions is set
  procContractIndex,       \* file.contract.contractIndex
  contractIdentity,        \* where the identity of the contract comes from
  ppc,                     \* position of the procedure call: idle, awaitTx, done
  procs,                   \* procedure calls made so far
  procMethod,              \* the method of the last procedure call
  procInputSize,           \* entry.inputSize of the procedure it named
  procByteLength,          \* inputBytes.byteLength, once materialized
  procOutcome,             \* how it ended: none, prepared, result, or the error class
  txCalls,                 \* calls handed to config.transactions so far
  \* ---- createQbiRegistry, createQbiHelpers
  files,                   \* input.files
  byName,                  \* registry.byName: contract name -> position of its file, 0 = no entry
  byIndex,                 \* registry.byIndex: contract index -> position of its file, 0 = no entry
  registryOutcome,         \* how createQbiRegistry ended: none, registry, or the error
  codecs,                  \* config.codecs: contract name -> the entries it names, per kind
  helpersOutcome,          \* how createQbiHelpers ended: none, helpers, or the error class
  lookups,                 \* helpers.contract calls made so far
  handle,                  \* what the last of them gave: position of the file, or the error
  \* ---- createContractHelpers.queryRaw
  defaultRetries,          \* config.defaultRetries ?? 0
  rpc,                     \* position of queryRaw: idle, awaitRpc, sleep, done
  retries,                 \* local of the same name
  retryDelayMs,            \* local of the same name
  expectedOutputSize,      \* local of the same name, Undef when not set
  signalAborted,           \* signal.aborted of the combined signal
  attempts,                \* local of the same name
  responses,               \* byte lengths of the querySmartContract responses, in order
  rpcCalls,                \* querySmartContract calls issued
  rawOutcome,              \* how queryRaw ended: none, or the result / error class
  \* ---- openSeedVault
  disk,                    \* the vault file at `path`: whether it exists, its salt, its entries
  vpc,                     \* the handle: none, open, closed
  opens,                   \* openSeedVault calls made so far
  passphrase,              \* input.passphrase of the open handle
  autoSave,                \* local of the same name
  key,                     \* local `key`
  header,                  \* file.kdf.params.saltBase64 of the local `file`
  entries,                 \* local `entries`, in insertion order
  vclock,                  \* new Date() as the next vault operation reads it
  vaultOutcome,            \* the last operation, how it ended and what it returned
  trip,                    \* how far the last added seed is on the way add, save, close, open
  imported,                \* the last importEncrypted call: its input and the entries before it
  \* ---- openSeedVault: the lock of the path
  lockFile,                \* the file path.lock exists
  lpc,                     \* opener -> idle, trying, sleeping, open, closed, failed
  lockHandle,              \* opener -> its local lockHandle is set
  lockTimeoutMs,           \* opener -> its local lockTimeoutMs, in units of 100 ms
  lockStart,               \* opener -> `start` of its acquireLock
  lockWake,                \* opener -> instant the timer of its retry is due
  lockAttempts,            \* opener -> open(path, "wx") calls of its acquireLock
  lockError,               \* opener -> the error its openSeedVault failed with
  lockOpens,               \* opener -> openSeedVault calls made so far
  lclock,                  \* Date.now(), in units of 100 ms
  \* ---- createTickHelpers
  minOffset,               \* local of the same name
  defaultOffset,           \* local of the same name
  maxOffset,               \* local of the same name
  tpc,                     \* position of getSuggestedTargetTick: idle, awaitTick, done
  tickCalls,               \* getSuggestedTargetTick calls made so far
  tickOffset,              \* local `offset` of the last call
  tickInfoCalls,           \* rpc.live.tickInfo calls the last call has issued
  liveTick,                \* the tick of the tickInfo response, Undef before it
  tickOutcome,             \* how the last call ended: none, or the value / error class
  \* ---- openSeedVault: addSeed and save calls in flight on one handle
  handleEntries,           \* local `entries` of the handle: name -> its seed, 0 = no entry
  handleFile,              \* the entries of the local `file` of the handle
  handleAutoSave,          \* local `autoSave` of the handle
  ops,                     \* caller -> its addSeed or save call: position, input, locals, result
  persistCalls,            \* addSeed and save calls made so far
  inodes,                  \* the files of the directory of `path`: what each holds
  pathInode,               \* the file the name `path` refers to, 0 = none
  tmpInode                 \* the file the name `path.tmp` refers to, 0 = none

queueVars == <<policy, activeBySource, itemsBySource, calls>>
confirmVars == <<cpc, targetTick, timeoutMs, pollIntervalMs, reachedTargetTick,
                 sawNotFoundAfterTarget, aborted, firedAt, now, wakeAt, polls, outcome,
                 seenTarget, seen404AfterTarget, fetchAfterTarget, lastResponse>>
sendVars == <<txQueueConfigured, spc, sends, sendSource, builtTxId, builtTargetTick,
              broadcastTxId, waitTxId, sendOutcome>>
logVars == <<subscriptions, configCursor, hasStore, store, socketState, open, pending,
             sent, requested, bpc, withCursor, bootMessages, bootSent, events,
             lastFrame, effects, writeOutcome, onErrorCalls, uncaught, dropped>>
\* Everything outside the queue and the confirmation wait.
qbiVars == <<qpc, queries, contractIndex, entryInputSize, inputByteLength,
             allowSizeMismatch, queryOutcome, rawCalls>>
procVars == <<transactionsConfigured, procContractIndex, contractIdentity, ppc, procs,
              procMethod, procInputSize, procByteLength, procOutcome, txCalls>>
coreVars == <<sendVars, logVars, qbiVars>>
registryVars == <<files, byName, byIndex, registryOutcome, codecs, helpersOutcome,
                  lookups, handle>>
rawVars == <<defaultRetries, rpc, retries, retryDelayMs, expectedOutputSize, signalAborted,
             attempts, responses, rpcCalls, rawOutcome>>
vaultVars == <<disk, vpc, opens, passphrase, autoSave, key, header, entries, vclock,
               vaultOutcome, trip, imported>>
lockVars == <<lockFile, lpc, lockHandle, lockTimeoutMs, lockStart, lockWake, lockAttempts,
              lockError, lockOpens, lclock>>
tickVars == <<minOffset, defaultOffset, maxOffset, tpc, tickCalls, tickOffset, tickInfoCalls,
              liveTick, tickOutcome>>
persistVars == <<handleEntries, handleFile, handleAutoSave, ops, persistCalls, inodes,
                 pathInode, tmpInode>>
kitVars == <<procVars, registryVars, rawVars, vaultVars, lockVars, tickVars, persistVars>>
otherVars == <<coreVars, kitVars>>
procFrame == <<queueVars, confirmVars, coreVars, registryVars, rawVars, vaultVars, lockVars,
               tickVars, persistVars>>
registryFrame == <<queueVars, confirmVars, coreVars, procVars, rawVars, vaultVars, lockVars,
                   tickVars, persistVars>>
rawFrame == <<queueVars, confirmVars, coreVars, procVars, registryVars, vaultVars, lockVars,
              tickVars, persistVars>>
vaultFrame == <<queueVars, confirmVars, coreVars, procVars, registryVars, rawVars, lockVars,
                tickVars, persistVars>>
lockFrame == <<queueVars, confirmVars, coreVars, procVars, registryVars, rawVars, vaultVars,
               tickVars, persistVars>>
tickFrame == <<queueVars, confirmVars, coreVars, procVars, registryVars, rawVars, vaultVars,
               lockVars, persistVars>>
persistFrame == <<queueVars, confirmVars, coreVars, procVars, registryVars, rawVars,
                  vaultVars, lockVars, tickVars>>
vars == <<queueVars, confirmVars, otherVars>>

\* ================================================================ TxQueue

Terminal == {"confirmed", "failed", "superseded"}

\* The guard of ActiveItem.supersede: a terminal item is left alone.
isTerminal(status) == status \in Terminal

\* Position of a status on pending -> submitted -> confirming -> terminal.
StatusRank(status) ==
  CASE status = "none" -> 0
    [] status = "pending" -> 1
    [] status = "submitted" -> 2
    [] status = "confirming" -> 3
    [] OTHER -> 4

\* The record of one enqueue call. pc is the position of enqueue/#run:
\*   awaitDone  suspended at `await existing.done`
\*   rejected   enqueue threw TxQueueError
\*   submit     #run suspended at `await input.submit(...)`
\*   confirm    #run suspended at `await active.confirm(...)`
\*   returned   #run has returned
\* status "none" means that no item exists for the call (yet).
NewCall(s, t) ==
  [sourceIdentity |-> s, targetTick |-> t, pc |-> "awaitDone", awaits |-> 0,
   status |-> "none", signalAborted |-> FALSE,
   promise |-> "pending", resolvedWith |-> "none", resolves |-> 0,
   error |-> "none", threw |-> "none", submitCalls |-> 0]

Ids == 1..Len(calls)

\* getActive(sourceIdentity): 0 stands for undefined.
getActive(s) == activeBySource[s]

\* getItems(sourceIdentity)
getItems(s) == itemsBySource[s]

\* deferred.resolve({...item}): settles the promise once; later calls are no-ops
\* for the promise but are counted.
resolveDeferred(c) ==
  [c EXCEPT !.promise = "fulfilled",
            !.resolvedWith = IF c.promise = "pending" THEN c.status ELSE c.resolvedWith,
            !.resolves = c.resolves + 1]

\* A supersede that settles the promise and leaves the controller alone.
supersedeItemNoAbort(c) ==
  IF isTerminal(c.status) THEN c
  ELSE resolveDeferred([c EXCEPT !.status = "superseded"])

\* ActiveItem.supersede, on the item's own record.
supersedeItem(c) ==
  IF isTerminal(c.status) THEN c
  ELSE resolveDeferred([c EXCEPT !.status = "superseded", !.signalAborted = TRUE])

\* ActiveItem.supersede, on the active map: the source's entry is deleted.
supersedeSlot(active, c) ==
  IF isTerminal(c.status) THEN active
  ELSE [active EXCEPT ![c.sourceIdentity] = 0]

\* A slip in the comparison: an equal tick is let through.
tickNotHigherStrict(newTick, activeTick) == newTick < activeTick

\* The replaceHigherTick check: the enqueue is refused.
tickNotHigher(newTick, activeTick) == newTick <= activeTick

\* A finally block that forgets the slot.
releaseSlotNever(active, s, id) == active

\* The finally block of #run: the slot is deleted only if it still holds this item.
releaseSlot(active, s, id) ==
  IF active[s] = id THEN [active EXCEPT ![s] = 0] ELSE active

\* A history that is one list for all sources.
pushItemShared(items, s, id) == [o \in DOMAIN items |-> Append(items[o], id)]

\* #pushItem
pushItem(items, s, id) == [items EXCEPT ![s] = Append(@, id)]

\* The tail of enqueue, after the policy check: the item is created, takes the
\* slot, is pushed on the history, and #run starts and calls submit.
startItem(c) ==
  [c EXCEPT !.pc = "submit", !.status = "pending", !.submitCalls = c.submitCalls + 1]

\* A reject branch that is never taken.
rejectsActiveNever(pol) == FALSE

\* enqueue under policy "reject" with an active item.
rejectsActive(pol) == pol = "reject"

\* enqueue(input), up to its first suspension point or its return.
Enqueue(s, t) ==
  /\ Len(calls) < MaxCalls
  /\ LET id == Len(calls) + 1
         existing == activeBySource[s]
         fresh == NewCall(s, t)
         refused == [fresh EXCEPT !.pc = "rejected", !.promise = "rejected",
                                  !.error = "TxQueueError"]
     IN
     IF existing = 0
     THEN /\ calls' = Append(calls, startItem(fresh))
          /\ activeBySource' = [activeBySource EXCEPT ![s] = id]
          /\ itemsBySource' = pushItem(itemsBySource, s, id)
     ELSE IF policy = "waitForConfirm"
     THEN /\ calls' = Append(calls, [fresh EXCEPT !.awaits = existing])
          /\ UNCHANGED <<activeBySource, itemsBySource>>
     ELSE IF rejectsActive(policy)
     THEN /\ calls' = Append(calls, refused)
          /\ UNCHANGED <<activeBySource, itemsBySource>>
     ELSE IF tickNotHigher(t, calls[existing].targetTick)
     THEN /\ calls' = Append(calls, refused)
          /\ UNCHANGED <<activeBySource, itemsBySource>>
     ELSE /\ calls' = Append([calls EXCEPT ![existing] = supersedeItem(@)],
                             startItem(fresh))
          /\ activeBySource' =
               [supersedeSlot(activeBySource, calls[existing]) EXCEPT ![s] = id]
          /\ itemsBySource' = pushItem(itemsBySource, s, id)
  /\ UNCHANGED <<policy, confirmVars, otherVars>>

\* The continuations of `await existing.done` run in the order in which they were
\* registered on the promise: the earliest waiter of an item first.
FirstWaiter(id) ==
  \A d \in Ids : (calls[d].pc = "awaitDone" /\ calls[d].awaits = calls[id].awaits) => id <= d

\* enqueue resumes after `await existing.done` (policy waitForConfirm): it goes on
\* to create its item without looking at the slot again.
ResumeEnqueue(id) ==
  /\ id \in Ids
  /\ calls[id].pc = "awaitDone"
  /\ calls[calls[id].awaits].promise = "fulfilled"
  /\ FirstWaiter(id)
  /\ LET s == calls[id].sourceIdentity IN
     /\ calls' = [calls EXCEPT ![id] = startItem(@)]
     /\ activeBySource' = [activeBySource EXCEPT ![s] = id]
     /\ itemsBySource' = pushItem(itemsBySource, s, id)
  /\ UNCHANGED <<policy, confirmVars, otherVars>>

\* #run without the superseded check after submit.
submitDoneUnchecked(c) == [c EXCEPT !.pc = "confirm", !.status = "confirming"]

\* #run after `await input.submit(...)` resolved, on the item's record. The status
\* passes through "submitted" and is "confirming" before anything else can run.
submitDone(c) ==
  IF c.status = "superseded" THEN [c EXCEPT !.pc = "returned"]
  ELSE [c EXCEPT !.pc = "confirm", !.status = "confirming"]

\* A confirmed item whose promise is left pending.
confirmDoneNoResolve(c) ==
  IF c.status = "superseded" THEN [c EXCEPT !.pc = "returned"]
  ELSE [c EXCEPT !.pc = "returned", !.status = "confirmed"]

\* #run after `await active.confirm(...)` resolved, on the item's record.
confirmDone(c) ==
  IF c.status = "superseded" THEN [c EXCEPT !.pc = "returned"]
  ELSE resolveDeferred([c EXCEPT !.pc = "returned", !.status = "confirmed"])

\* A catch block that records the failure and lets the promise hang.
runCatchNoResolve(c, err) ==
  IF c.status = "superseded" THEN [c EXCEPT !.pc = "returned"]
  ELSE [c EXCEPT !.pc = "returned", !.status = "failed", !.error = err]

\* The catch block of #run, on the item's record.
runCatch(c, err) ==
  IF c.status = "superseded" THEN [c EXCEPT !.pc = "returned"]
  ELSE resolveDeferred([c EXCEPT !.pc = "returned", !.status = "failed", !.error = err])

\* submit resolved: the item is submitted, then confirming, and confirm is called;
\* a superseded item returns through the finally block.
SubmitResolved(id) ==
  /\ id \in Ids
  /\ calls[id].pc = "submit"
  /\ calls' = [calls EXCEPT ![id] = submitDone(@)]
  /\ activeBySource' =
       IF calls'[id].pc = "returned"
       THEN releaseSlot(activeBySource, calls[id].sourceIdentity, id)
       ELSE activeBySource
  /\ UNCHANGED <<policy, itemsBySource, confirmVars, otherVars>>

\* submit threw or rejected.
SubmitRejected(id) ==
  /\ id \in Ids
  /\ calls[id].pc = "submit"
  /\ calls' = [calls EXCEPT ![id] = runCatch([@ EXCEPT !.threw = "submit"], "SubmitError")]
  /\ activeBySource' = releaseSlot(activeBySource, calls[id].sourceIdentity, id)
  /\ UNCHANGED <<policy, itemsBySource, confirmVars, otherVars>>

\* confirm resolved.
ConfirmResolved(id) ==
  /\ id \in Ids
  /\ calls[id].pc = "confirm"
  /\ calls' = [calls EXCEPT ![id] = confirmDone(@)]
  /\ activeBySource' = releaseSlot(activeBySource, calls[id].sourceIdentity, id)
  /\ UNCHANGED <<policy, itemsBySource, confirmVars, otherVars>>

\* confirm threw or rejected.
ConfirmRejected(id) ==
  /\ id \in Ids
  /\ calls[id].pc = "confirm"
  /\ calls' = [calls EXCEPT ![id] = runCatch([@ EXCEPT !.threw = "confirm"], "ConfirmError")]
  /\ activeBySource' = releaseSlot(activeBySource, calls[id].sourceIdentity, id)
  /\ UNCHANGED <<policy, itemsBySource, confirmVars, otherVars>>

\* ------------------------------------------------- log stream: JSON values

\* undefined: a field that is absent.
Undef == -1
\* A value that is present and is not a finite number (a string, say).
NotNumber == -2
\* Log ids and tick numbers.
LogVals == 1..MaxVal
\* What a field of an incoming frame may hold.
JsonVals == {Undef, NotNumber} \cup LogVals

ScIndexes == 1..MaxSubs
LogTypes == {1, 2}
\* The keys of the cursor store.
Keys == ScIndexes \X LogTypes

\* A cursor with neither field, and what the store answers for a key it does not
\* hold.
NoCursor == [lastLogId |-> Undef, lastTick |-> Undef]

\* No frame yet.
NoFrame ==
  [type |-> "none", scIndex |-> Undef, logType |-> Undef,
   logId |-> Undef, id |-> Undef, tick |-> Undef, tickNumber |-> Undef]

\* A log stream nobody has created: no subscriptions, no store, no socket event.
LogIdle ==
  /\ subscriptions = <<>>
  /\ configCursor = NoCursor
  /\ hasStore = FALSE
  /\ store = [k \in Keys |-> NoCursor]
  /\ socketState = "connecting"
  /\ open = FALSE
  /\ pending = <<>>
  /\ sent = <<>>
  /\ requested = <<>>
  /\ bpc = "idle"
  /\ withCursor = <<>>
  /\ bootMessages = <<>>
  /\ bootSent = 0
  /\ events = 0
  /\ lastFrame = NoFrame
  /\ effects = <<>>
  /\ writeOutcome = "none"
  /\ onErrorCalls = 0
  /\ uncaught = 0
  /\ dropped = 0

\* sendAndConfirm before it is called, on helpers that were given no queue.
SendIdle ==
  /\ txQueueConfigured = FALSE
  /\ spc = "idle"
  /\ sends = 0
  /\ sendSource = "none"
  /\ builtTxId = "none"
  /\ builtTargetTick = 0
  /\ broadcastTxId = "none"
  /\ waitTxId = "none"
  /\ sendOutcome = "none"

\* A contract handle nobody has queried.
QbiIdle ==
  /\ qpc = "idle"
  /\ queries = 0
  /\ contractIndex = 0
  /\ entryInputSize = Undef
  /\ inputByteLength = Undef
  /\ allowSizeMismatch = FALSE
  /\ queryOutcome = "none"
  /\ rawCalls = 0

\* ---- qbi registry: interface files and codec registries
\* contract.name of an interface file.
ContractNames == {"X", "Y"}
\* contract.contractIndex of an interface file, when it is a number.
FileIndexes == {1, 2}
\* name of an entry.
EntryNames == {"e"}
\* kind of an entry.
EntryKinds == {"function", "procedure"}
\* helpers.contract has not been called.
NoHandle == [outcome |-> "none", file |-> 0]
\* What a codec registry holds for a contract name that is not one of its keys.
NotNamed == [named |-> FALSE, functions |-> {}, procedures |-> {}]
\* A codec registry that names no contract (or config.codecs undefined).
NoCodecs == [n \in ContractNames |-> NotNamed]

\* No procedure call is made: the handle of a contract without transactions helper.
ProcIdle ==
  /\ transactionsConfigured = FALSE
  /\ procContractIndex = Undef
  /\ contractIdentity = "none"
  /\ ppc = "idle"
  /\ procs = 0
  /\ procMethod = "none"
  /\ procInputSize = Undef
  /\ procByteLength = Undef
  /\ procOutcome = "none"
  /\ txCalls = 0

\* createQbiRegistry has not been called.
RegistryIdle ==
  /\ files = <<>>
  /\ byName = [n \in ContractNames |-> 0]
  /\ byIndex = [i \in FileIndexes |-> 0]
  /\ registryOutcome = "none"
  /\ codecs = NoCodecs
  /\ helpersOutcome = "none"
  /\ lookups = 0
  /\ handle = NoHandle

\* queryRaw has not ended.
NoRawOutcome == [kind |-> "none", responseLength |-> Undef, attempts |-> 0]

\* queryRaw is not called: contract helpers with the default configuration.
RawIdle ==
  /\ defaultRetries = 0
  /\ rpc = "idle"
  /\ retries = 0
  /\ retryDelayMs = 0
  /\ expectedOutputSize = Undef
  /\ signalAborted = FALSE
  /\ attempts = 0
  /\ responses = <<>>
  /\ rpcCalls = 0
  /\ rawOutcome = NoRawOutcome

\* ---- seed vault: values
\* No passphrase, no key: no handle is open.
NoPassphrase == "none"
NoKey == [passphrase |-> NoPassphrase, salt |-> 0]
\* No vault file at the path.
NoFile == [exists |-> FALSE, salt |-> 0, entries |-> <<>>]
\* No vault operation has been made.
NoVaultOutcome == [op |-> "none", kind |-> "none", value |-> "none"]
\* No seed has been added.
NoTrip == [stage |-> "none", name |-> "none", seed |-> "none", passphrase |-> NoPassphrase]

\* importEncrypted has not been called.
NoImport == [mode |-> "none", sourcePassphrase |-> NoPassphrase, source |-> NoFile,
             before |-> <<>>]

\* openSeedVault is not called and no vault file exists.
VaultIdle ==
  /\ disk = NoFile
  /\ vpc = "none"
  /\ opens = 0
  /\ passphrase = NoPassphrase
  /\ autoSave = TRUE
  /\ key = NoKey
  /\ header = 0
  /\ entries = <<>>
  /\ vclock = 1
  /\ vaultOutcome = NoVaultOutcome
  /\ trip = NoTrip
  /\ imported = NoImport

\* The callers of openSeedVault on one path (handles of one or of several processes).
Openers == {1, 2}

\* No opener has called openSeedVault and the path has no lock file.
LockIdle ==
  /\ lockFile = FALSE
  /\ lpc = [p \in Openers |-> "idle"]
  /\ lockHandle = [p \in Openers |-> FALSE]
  /\ lockTimeoutMs = [p \in Openers |-> 0]
  /\ lockStart = [p \in Openers |-> 0]
  /\ lockWake = [p \in Openers |-> 0]
  /\ lockAttempts = [p \in Openers |-> 0]
  /\ lockError = [p \in Openers |-> "none"]
  /\ lockOpens = [p \in Openers |-> 0]
  /\ lclock = 0

\* getSuggestedTargetTick has not ended.
NoTickOutcome == [kind |-> "none", value |-> Undef]

\* getSuggestedTargetTick is not called: tick helpers whose guardrails admit one offset.
TickIdle ==
  /\ minOffset = 0
  /\ defaultOffset = 0
  /\ maxOffset = 0
  /\ tpc = "idle"
  /\ tickCalls = 0
  /\ tickOffset = 0
  /\ tickInfoCalls = 0
  /\ liveTick = Undef
  /\ tickOutcome = NoTickOutcome

\* The callers of addSeed and save on one handle, the names and the seeds they give.
PersistCallers == {1, 2}
PersistNames == {"a", "b"}
PersistSeeds == {1, 2}

\* A map without entries, and a caller that has made no call.
NoEntries == [n \in PersistNames |-> 0]
NoPersistOp == [pc |-> "idle", op |-> "none", name |-> "none", seed |-> 0,
                overwrite |-> FALSE, updated |-> NoEntries, fd |-> 0, result |-> "none"]

\* openSeedVault is not called: no handle, no file at path or at path.tmp.
PersistIdle ==
  /\ handleEntries = NoEntries
  /\ handleFile = NoEntries
  /\ handleAutoSave = TRUE
  /\ ops = [c \in PersistCallers |-> NoPersistOp]
  /\ persistCalls = 0
  /\ inodes = <<>>
  /\ pathInode = 0
  /\ tmpInode = 0

KitIdle ==
  ProcIdle /\ RegistryIdle /\ RawIdle /\ VaultIdle /\ LockIdle /\ TickIdle /\ PersistIdle

OtherIdle == SendIdle /\ LogIdle /\ QbiIdle /\ KitIdle

\* The confirmation wait before it is called.
ConfirmIdle ==
  /\ cpc = "idle"
  /\ targetTick = 1
  /\ timeoutMs = 1
  /\ pollIntervalMs = 1
  /\ reachedTargetTick = FALSE
  /\ sawNotFoundAfterTarget = FALSE
  /\ aborted = FALSE
  /\ firedAt = "never"
  /\ now = 0
  /\ wakeAt = 0
  /\ polls = 0
  /\ outcome = "none"
  /\ seenTarget = FALSE
  /\ seen404AfterTarget = FALSE
  /\ fetchAfterTarget = FALSE
  /\ lastResponse = "none"

\* new TxQueue(config): empty maps, the configured policy.
QueueInit ==
  /\ policy \in Policies
  /\ activeBySource = [s \in Sources |-> 0]
  /\ itemsBySource = [s \in Sources |-> <<>>]
  /\ calls = <<>>

InitQueue == QueueInit /\ ConfirmIdle /\ OtherIdle

NextQueue ==
  \/ \E s \in Sources, t \in Ticks : Enqueue(s, t)
  \/ \E id \in 1..MaxCalls : ResumeEnqueue(id)
  \/ \E id \in 1..MaxCalls : SubmitResolved(id)
  \/ \E id \in 1..MaxCalls : SubmitRejected(id)
  \/ \E id \in 1..MaxCalls : ConfirmResolved(id)
  \/ \E id \in 1..MaxCalls : ConfirmRejected(id)

SpecQueue == InitQueue /\ [][NextQueue]_vars

\* ==================================================== confirmation engine

\* Inputs of a wait.
Timeouts == 1..(MaxTime - 1)
PollIntervals == {0, 1}
TickNumbers == 0..MaxTick
\* What getTransactionByHash answers: the record, an RpcError with status 404, or
\* any other error.
TxResponses == {"record", "404", "error"}

\* A comparison that lets every tick through.
belowTargetNever(tickNumber, target) == FALSE

\* lastProcessed.tickNumber < targetTick
belowTarget(tickNumber, target) == tickNumber < target

\* A 404 handled like any other error.
isNotFoundNever(response) == FALSE

\* A catch that takes every error for a 404 and polls again.
isNotFoundAny(response) == response # "record"

\* err instanceof RpcError && err.details.status === 404
isNotFound(response) == response = "404"

\* A timeout branch that has lost its not-found case.
timeoutErrorPlain(reached, sawNotFound) == "TxConfirmationTimeoutError"

\* The error of the timeout branch.
timeoutError(reached, sawNotFound) ==
  IF reached /\ sawNotFound THEN "TxNotFoundError" ELSE "TxConfirmationTimeoutError"

\* Date.now() - start > timeoutMs
timedOut == now > timeoutMs

\* A loop head that looks at the clock before it looks at the signal.
loopTopTimeoutFirst(isAborted) ==
  IF timedOut
  THEN /\ cpc' = "done"
       /\ outcome' = timeoutError(reachedTargetTick, sawNotFoundAfterTarget)
       /\ UNCHANGED polls
  ELSE IF isAborted
  THEN /\ cpc' = "done"
       /\ outcome' = "TxConfirmationAbortedError"
       /\ UNCHANGED polls
  ELSE /\ polls < MaxPolls
       /\ cpc' = "awaitTick"
       /\ polls' = polls + 1
       /\ UNCHANGED outcome

\* The head of the polling loop, up to `await getLastProcessedTick()`: the abort
\* check, the timeout check, then the call.
loopTop(isAborted) ==
  IF isAborted
  THEN /\ cpc' = "done"
       /\ outcome' = "TxConfirmationAbortedError"
       /\ UNCHANGED polls
  ELSE IF timedOut
  THEN /\ cpc' = "done"
       /\ outcome' = timeoutError(reachedTargetTick, sawNotFoundAfterTarget)
       /\ UNCHANGED polls
  ELSE /\ polls < MaxPolls
       /\ cpc' = "awaitTick"
       /\ polls' = polls + 1
       /\ UNCHANGED outcome

\* sleep(ms, signal): resolved at once for ms <= 0, else a timer and an abort listener.
sleep(ms) ==
  IF ms <= 0
  THEN cpc' = "loop" /\ UNCHANGED wakeAt
  ELSE cpc' = "sleep" /\ wakeAt' = now + ms

\* An abort listener that is attached for the whole wait.
abortListenerAlways(pc) == TRUE

\* Whether an abort listener of the wait is attached at position pc: sleep adds it
\* and its cleanup removes it; nothing else in the wait listens to the signal.
abortListener(pc) == pc = "sleep"

\* Whether a fired signal ends an RPC call in flight: getLastProcessedTick() and
\* getTransactionByHash(txId) are called without the signal.
rpcAborted(isAborted) == FALSE

\* waitForConfirmedTransaction(input), up to its first await. The signal may have
\* fired before the call.
WaitForConfirmedTransaction(target, timeout, poll, fired) ==
  /\ cpc = "idle"
  /\ targetTick' = target
  /\ timeoutMs' = timeout
  /\ pollIntervalMs' = poll
  /\ aborted' = fired
  /\ firedAt' = IF fired THEN "idle" ELSE "never"
  /\ loopTop(fired)
  /\ UNCHANGED <<reachedTargetTick, sawNotFoundAfterTarget, now, wakeAt,
                 seenTarget, seen404AfterTarget, fetchAfterTarget, lastResponse>>
  /\ UNCHANGED <<queueVars, otherVars>>

\* The loop resumes after a sleep.
LoopAgain ==
  /\ cpc = "loop"
  /\ loopTop(aborted)
  /\ UNCHANGED <<targetTick, timeoutMs, pollIntervalMs, reachedTargetTick,
                 sawNotFoundAfterTarget, aborted, firedAt, now, wakeAt,
                 seenTarget, seen404AfterTarget, fetchAfterTarget, lastResponse>>
  /\ UNCHANGED <<queueVars, otherVars>>

\* getLastProcessedTick answers: below the target the wait sleeps, else it marks the
\* target reached and calls getTransactionByHash.
TickResponse(tickNumber) ==
  /\ cpc = "awaitTick"
  /\ ~rpcAborted(aborted)
  /\ lastResponse' = "tick"
  /\ seenTarget' = (seenTarget \/ tickNumber >= targetTick)
  /\ IF belowTarget(tickNumber, targetTick)
     THEN /\ sleep(pollIntervalMs)
          /\ UNCHANGED <<reachedTargetTick, fetchAfterTarget>>
     ELSE /\ reachedTargetTick' = TRUE
          /\ cpc' = "awaitTx"
          /\ fetchAfterTarget' = seenTarget'
          /\ UNCHANGED wakeAt
  /\ UNCHANGED <<targetTick, timeoutMs, pollIntervalMs, sawNotFoundAfterTarget,
                 aborted, firedAt, now, polls, outcome, seen404AfterTarget>>
  /\ UNCHANGED <<queueVars, otherVars>>

\* getLastProcessedTick fails: the error leaves the wait.
TickFailed ==
  /\ cpc = "awaitTick"
  /\ lastResponse' = "error"
  /\ cpc' = "done"
  /\ outcome' = "RpcError"
  /\ UNCHANGED <<targetTick, timeoutMs, pollIntervalMs, reachedTargetTick,
                 sawNotFoundAfterTarget, aborted, firedAt, now, wakeAt, polls,
                 seenTarget, seen404AfterTarget, fetchAfterTarget>>
  /\ UNCHANGED <<queueVars, otherVars>>

\* getTransactionByHash answers: the record is returned, a 404 is noted and slept
\* on, any other error leaves the wait.
TxResponse(response) ==
  /\ cpc = "awaitTx"
  /\ response = "error" \/ ~rpcAborted(aborted)
  /\ lastResponse' = response
  /\ seen404AfterTarget' = (seen404AfterTarget \/ (response = "404" /\ seenTarget))
  /\ IF response = "record"
     THEN /\ cpc' = "done"
          /\ outcome' = "record"
          /\ UNCHANGED <<sawNotFoundAfterTarget, wakeAt>>
     ELSE IF isNotFound(response)
     THEN /\ sawNotFoundAfterTarget' = TRUE
          /\ sleep(pollIntervalMs)
          /\ UNCHANGED outcome
     ELSE /\ cpc' = "done"
          /\ outcome' = "RpcError"
          /\ UNCHANGED <<sawNotFoundAfterTarget, wakeAt>>
  /\ UNCHANGED <<targetTick, timeoutMs, pollIntervalMs, reachedTargetTick,
                 aborted, firedAt, now, polls, seenTarget, fetchAfterTarget>>
  /\ UNCHANGED <<queueVars, otherVars>>

\* The timer of sleep fires: cleanup, resolve, and the loop continues.
SleepElapsed ==
  /\ cpc = "sleep"
  /\ now >= wakeAt
  /\ cpc' = "loop"
  /\ UNCHANGED <<targetTick, timeoutMs, pollIntervalMs, reachedTargetTick,
                 sawNotFoundAfterTarget, aborted, firedAt, now, wakeAt, polls, outcome,
                 seenTarget, seen404AfterTarget, fetchAfterTarget, lastResponse>>
  /\ UNCHANGED <<queueVars, otherVars>>

\* The caller's signal fires, during the wait or after it has ended. A pending sleep
\* has its listener run, which rejects the sleep with TxConfirmationAbortedError;
\* nothing else listens.
Abort ==
  /\ cpc # "idle"
  /\ ~aborted
  /\ aborted' = TRUE
  /\ firedAt' = cpc
  /\ IF abortListener(cpc)
     THEN cpc' = "done" /\ outcome' = "TxConfirmationAbortedError"
     ELSE UNCHANGED <<cpc, outcome>>
  /\ UNCHANGED <<targetTick, timeoutMs, pollIntervalMs, reachedTargetTick,
                 sawNotFoundAfterTarget, now, wakeAt, polls,
                 seenTarget, seen404AfterTarget, fetchAfterTarget, lastResponse>>
  /\ UNCHANGED <<queueVars, otherVars>>

\* A millisecond passes.
ClockTick ==
  /\ cpc \notin {"idle", "done"}
  /\ now < MaxTime
  /\ now' = now + 1
  /\ UNCHANGED <<cpc, targetTick, timeoutMs, pollIntervalMs, reachedTargetTick,
                 sawNotFoundAfterTarget, aborted, firedAt, wakeAt, polls, outcome,
                 seenTarget, seen404AfterTarget, fetchAfterTarget, lastResponse>>
  /\ UNCHANGED <<queueVars, otherVars>>

\* A queue nobody has used: the default policy, empty maps.
QueueIdle ==
  /\ policy = "waitForConfirm"
  /\ activeBySource = [s \in Sources |-> 0]
  /\ itemsBySource = [s \in Sources |-> <<>>]
  /\ calls = <<>>

InitConfirm == ConfirmIdle /\ QueueIdle /\ OtherIdle

NextConfirm ==
  \/ \E target \in Ticks, timeout \in Timeouts, poll \in PollIntervals, fired \in BOOLEAN :
       WaitForConfirmedTransaction(target, timeout, poll, fired)
  \/ LoopAgain
  \/ \E tickNumber \in TickNumbers : TickResponse(tickNumber)
  \/ TickFailed
  \/ \E response \in TxResponses : TxResponse(response)
  \/ SleepElapsed
  \/ Abort
  \/ ClockTick

SpecConfirm == InitConfirm /\ [][NextConfirm]_vars

\* ========================================================= sendAndConfirm

\* Transaction ids: what transactionId(txBytes) computes and what the broadcast
\* endpoint returns are both strings of this kind.
TxIds == {"t1", "t2"}

\* The state createTransactionHelpers starts in: createSdk hands it a TxQueue unless
\* txQueue.enabled is false.
SendInit ==
  /\ txQueueConfigured \in BOOLEAN
  /\ spc = "idle"
  /\ sends = 0
  /\ sendSource = "none"
  /\ builtTxId = "none"
  /\ builtTargetTick = 0
  /\ broadcastTxId = "none"
  /\ waitTxId = "none"
  /\ sendOutcome = "none"

\* The txId sendAndConfirm hands to waitForConfirmation: `txId: built.txId`.
confirmationTxId(built, network) == built

\* sendAndConfirm(input), up to `await helpers.buildSigned(input)`.
SendAndConfirm(s, t) ==
  /\ spc \in {"idle", "done"}
  /\ sends < MaxSends
  /\ sends' = sends + 1
  /\ spc' = "build"
  /\ sendSource' = s
  /\ builtTargetTick' = t
  /\ builtTxId' = "none"
  /\ broadcastTxId' = "none"
  /\ waitTxId' = "none"
  /\ sendOutcome' = "none"
  /\ UNCHANGED txQueueConfigured
  /\ UNCHANGED <<queueVars, confirmVars, logVars, qbiVars, kitVars>>

\* buildSigned returns {txBytes, txId, targetTick}; sendAndConfirm goes on to
\* `await config.tx.broadcastSigned(built.txBytes)`, whatever the configuration.
BuildSigned(txId) ==
  /\ spc = "build"
  /\ builtTxId' = txId
  /\ spc' = "broadcast"
  /\ UNCHANGED <<txQueueConfigured, sends, sendSource, builtTargetTick, broadcastTxId,
                 waitTxId, sendOutcome>>
  /\ UNCHANGED <<queueVars, confirmVars, logVars, qbiVars, kitVars>>

\* The broadcast endpoint answers; sendAndConfirm goes on to
\* `await config.tx.waitForConfirmation({txId: built.txId, ...})`.
BroadcastResolved(transactionId) ==
  /\ spc = "broadcast"
  /\ broadcastTxId' = transactionId
  /\ waitTxId' = confirmationTxId(builtTxId, transactionId)
  /\ spc' = "confirm"
  /\ UNCHANGED <<txQueueConfigured, sends, sendSource, builtTxId, builtTargetTick,
                 sendOutcome>>
  /\ UNCHANGED <<queueVars, confirmVars, logVars, qbiVars, kitVars>>

\* The broadcast fails: the error leaves sendAndConfirm.
BroadcastRejected ==
  /\ spc = "broadcast"
  /\ spc' = "done"
  /\ sendOutcome' = "RpcError"
  /\ UNCHANGED <<txQueueConfigured, sends, sendSource, builtTxId, builtTargetTick,
                 broadcastTxId, waitTxId>>
  /\ UNCHANGED <<queueVars, confirmVars, logVars, qbiVars, kitVars>>

\* waitForConfirmation resolves: sendAndConfirm returns {...built, broadcast}.
WaitResolved ==
  /\ spc = "confirm"
  /\ spc' = "done"
  /\ sendOutcome' = "sent"
  /\ UNCHANGED <<txQueueConfigured, sends, sendSource, builtTxId, builtTargetTick,
                 broadcastTxId, waitTxId>>
  /\ UNCHANGED <<queueVars, confirmVars, logVars, qbiVars, kitVars>>

\* waitForConfirmation rejects: the error leaves sendAndConfirm.
WaitRejected ==
  /\ spc = "confirm"
  /\ spc' = "done"
  /\ sendOutcome' = "ConfirmError"
  /\ UNCHANGED <<txQueueConfigured, sends, sendSource, builtTxId, builtTargetTick,
                 broadcastTxId, waitTxId>>
  /\ UNCHANGED <<queueVars, confirmVars, logVars, qbiVars, kitVars>>

InitSend == SendInit /\ QueueInit /\ ConfirmIdle /\ LogIdle /\ QbiIdle /\ KitIdle

NextSend ==
  \/ \E s \in Sources, t \in Ticks : SendAndConfirm(s, t)
  \/ \E txId \in TxIds : BuildSigned(txId)
  \/ \E transactionId \in TxIds : BroadcastResolved(transactionId)
  \/ BroadcastRejected
  \/ WaitResolved
  \/ WaitRejected

SpecSend == InitSend /\ [][NextSend]_vars

\* ============================================================= log stream

\* asNumber(value): a finite number, else undefined.
asNumber(value) == IF value \in Nat THEN value ELSE Undef

\* a ?? b
coalesce(a, b) == IF a = Undef THEN b ELSE a

\* cursorKey(scIndex, logType): `${scIndex}:${logType}`.
cursorKey(scIndex, logType) == <<scIndex, logType>>

\* The object subscribe(sub) hands to sendMessage: lastLogId if the subscription has
\* one, lastTick only without a lastLogId.
subscribeMessage(sub) ==
  [action |-> "subscribe", batch |-> FALSE,
   scIndex |-> sub.scIndex, logType |-> sub.logType,
   lastLogId |-> sub.lastLogId,
   lastTick |-> IF sub.lastLogId = Undef THEN sub.lastTick ELSE Undef,
   subscriptions |-> <<>>]

\* The object subscribeMany(subs, cursor) hands to sendMessage.
subscribeManyMessage(subs, cursor) ==
  [action |-> "subscribe", batch |-> TRUE,
   scIndex |-> Undef, logType |-> Undef,
   lastLogId |-> cursor.lastLogId,
   lastTick |-> IF cursor.lastLogId = Undef THEN cursor.lastTick ELSE Undef,
   subscriptions |-> [i \in 1..Len(subs) |-> <<subs[i].scIndex, subs[i].logType>>]]

\* The objects of unsubscribeAll() and ping().
plainMessage(action) ==
  [action |-> action, batch |-> FALSE, scIndex |-> Undef, logType |-> Undef,
   lastLogId |-> Undef, lastTick |-> Undef, subscriptions |-> <<>>]

\* A subscription the user adds by hand.
UserSubscription == [scIndex |-> 1, logType |-> 2, lastLogId |-> Undef, lastTick |-> MaxVal]

\* What the user of the stream may ask for.
UserMessages ==
  {plainMessage("ping"), plainMessage("unsubscribeAll"), subscribeMessage(UserSubscription)}

\* sendMessage, for each of texts in turn: queued while the socket is not open,
\* passed to socket.send otherwise.
sendMessages(isOpen, texts) ==
  IF ~isOpen
  THEN /\ pending' = pending \o texts
       /\ UNCHANGED sent
  ELSE /\ sent' = sent \o texts
       /\ UNCHANGED pending

\* The flush of socket.onopen: pending.splice(0, pending.length), in order.
flush(queue) == queue

\* A lookup that asks the store first and falls back on the subscription's own
\* cursor.
getCursorForStoreFirst(sub) ==
  IF hasStore /\ store[cursorKey(sub.scIndex, sub.logType)] # NoCursor
  THEN store[cursorKey(sub.scIndex, sub.logType)]
  ELSE [lastLogId |-> sub.lastLogId, lastTick |-> sub.lastTick]

\* getCursorFor(sub): the subscription's own cursor, else undefined without a store,
\* else what the store holds under the subscription's key.
getCursorFor(sub) ==
  IF sub.lastLogId # Undef \/ sub.lastTick # Undef
  THEN [lastLogId |-> sub.lastLogId, lastTick |-> sub.lastTick]
  ELSE IF ~hasStore THEN NoCursor
  ELSE store[cursorKey(sub.scIndex, sub.logType)]

\* Whether getCursorFor(sub) calls cursorStore.get.
readsStore(sub) == sub.lastLogId = Undef /\ sub.lastTick = Undef /\ hasStore

\* {...s, ...cursor}
withCursorOf(sub, cursor) ==
  [sub EXCEPT !.lastLogId = coalesce(cursor.lastLogId, @),
              !.lastTick = coalesce(cursor.lastTick, @)]

hasPerCursor(subs) ==
  \E i \in 1..Len(subs) : subs[i].lastLogId # Undef \/ subs[i].lastTick # Undef

\* A bootstrap that always subscribes one by one.
bootstrapMessagesEach(subs) == [i \in 1..Len(subs) |-> subscribeMessage(subs[i])]

\* The messages of bootstrapSubscriptions once every cursor is known: one batch
\* when there are several subscriptions and none has a cursor, else one subscribe
\* for each.
bootstrapMessages(subs) ==
  IF ~hasPerCursor(subs) /\ Len(subs) > 1
  THEN <<subscribeManyMessage(subs, configCursor)>>
  ELSE [i \in 1..Len(subs) |-> subscribeMessage(subs[i])]

\* subscribe / unsubscribeAll / ping called by the user of the stream.
Request(message) ==
  /\ Len(requested) < MaxRequests
  /\ requested' = Append(requested, message)
  /\ sendMessages(open, <<message>>)
  /\ UNCHANGED <<subscriptions, configCursor, hasStore, store, socketState, open, bpc,
                 withCursor, bootMessages, bootSent, events, lastFrame, effects,
                 writeOutcome, onErrorCalls, uncaught, dropped>>
  /\ UNCHANGED <<queueVars, confirmVars, sendVars, qbiVars, kitVars>>

\* socket.onopen: the flush, then bootstrapSubscriptions up to its first await.
Open ==
  /\ socketState = "connecting"
  /\ socketState' = "open"
  /\ open' = TRUE
  /\ sent' = sent \o flush(pending)
  /\ pending' = <<>>
  /\ bpc' = IF Len(subscriptions) > 0 THEN "lookup" ELSE bpc
  /\ UNCHANGED <<subscriptions, configCursor, hasStore, store, requested, withCursor,
                 bootMessages, bootSent, events, lastFrame, effects, writeOutcome,
                 onErrorCalls, uncaught, dropped>>
  /\ UNCHANGED <<queueVars, confirmVars, sendVars, qbiVars, kitVars>>

\* `await getCursorFor(s)` resolves: the cursor is merged into the subscription, and
\* after the last one the bootstrap messages are handed to sendMessage.
LookupResolved ==
  /\ bpc = "lookup"
  /\ LET sub == subscriptions[Len(withCursor) + 1]
         resolved == Append(withCursor, withCursorOf(sub, getCursorFor(sub)))
     IN /\ withCursor' = resolved
        /\ IF Len(resolved) < Len(subscriptions)
           THEN UNCHANGED <<bpc, bootMessages, bootSent, pending, sent>>
           ELSE /\ bpc' = "done"
                /\ bootMessages' = bootstrapMessages(resolved)
                /\ bootSent' = IF open THEN bootSent + 1 ELSE bootSent
                /\ sendMessages(open, bootstrapMessages(resolved))
  /\ UNCHANGED <<subscriptions, configCursor, hasStore, store, socketState, open,
                 requested, events, lastFrame, effects, writeOutcome, onErrorCalls,
                 uncaught, dropped>>
  /\ UNCHANGED <<queueVars, confirmVars, sendVars, qbiVars, kitVars>>

\* cursorStore.get throws or rejects: bootstrapSubscriptions ends there, and its
\* promise, which nobody holds, is rejected.
LookupRejected ==
  /\ bpc = "lookup"
  /\ readsStore(subscriptions[Len(withCursor) + 1])
  /\ bpc' = "failed"
  /\ uncaught' = uncaught + 1
  /\ UNCHANGED <<subscriptions, configCursor, hasStore, store, socketState, open, pending,
                 sent, requested, withCursor, bootMessages, bootSent, events, lastFrame,
                 effects, writeOutcome, onErrorCalls, dropped>>
  /\ UNCHANGED <<queueVars, confirmVars, sendVars, qbiVars, kitVars>>

\* socket.onclose
Close ==
  /\ socketState # "closed"
  /\ socketState' = "closed"
  /\ open' = FALSE
  /\ UNCHANGED <<subscriptions, configCursor, hasStore, store, pending, sent, requested,
                 bpc, withCursor, bootMessages, bootSent, events, lastFrame, effects,
                 writeOutcome, onErrorCalls, uncaught, dropped>>
  /\ UNCHANGED <<queueVars, confirmVars, sendVars, qbiVars, kitVars>>

\* socket.onerror: the event goes to config.onError.
SocketError ==
  /\ socketState # "closed"
  /\ onErrorCalls < MaxFrames
  /\ onErrorCalls' = onErrorCalls + 1
  /\ lastFrame' = NoFrame
  /\ effects' = <<"onError">>
  /\ writeOutcome' = "none"
  /\ UNCHANGED <<subscriptions, configCursor, hasStore, store, socketState, open, pending,
                 sent, requested, bpc, withCursor, bootMessages, bootSent, events,
                 uncaught, dropped>>
  /\ UNCHANGED <<queueVars, confirmVars, sendVars, qbiVars, kitVars>>

\* ---- incoming frames

MessageTypes == {"welcome", "ack", "log", "catchUpComplete", "pong", "error"}

\* The scIndex and logType of a log frame: a key, or one of them absent or
\* malformed.
FrameKeys == ({1, 2} \X LogTypes) \cup {<<Undef, 1>>, <<1, NotNumber>>}

\* The payloads of log frames, as <<logId, id, tick, tickNumber>>: any mix of
\* absent, malformed and numeric logId and id, with or without a tick; and any
\* such mix of tick and tickNumber without logId and id.
Payloads ==
  {<<a[1], a[2], t, Undef>> : a \in JsonVals \X JsonVals, t \in {Undef, MaxVal}}
    \cup {<<Undef, Undef, a[1], a[2]>> : a \in JsonVals \X JsonVals}

\* Frames of type log.
LogFrames ==
  {[type |-> "log", scIndex |-> k[1], logType |-> k[2],
    logId |-> p[1], id |-> p[2], tick |-> p[3], tickNumber |-> p[4]] :
     k \in FrameKeys, p \in Payloads}

\* Frames of the other types, of an unknown type, and data that is not JSON; each
\* with everything a cursor could be taken from.
OtherFrames ==
  [type : (MessageTypes \ {"log"}) \cup {"unknown", "invalid"}, scIndex : {1},
   logType : {1}, logId : {MaxVal}, id : {Undef}, tick : {MaxVal}, tickNumber : {Undef}]

Frames == LogFrames \cup OtherFrames

\* How a call of cursorStore.set may end.
WriteOutcomes == {"ok", "threw", "rejected"}

\* The handler socket.onmessage picks for a type; none for data that does not parse
\* and for a type it does not know.
handlerOf(type) ==
  CASE type = "welcome" -> <<"onWelcome">>
    [] type = "ack" -> <<"onAck">>
    [] type = "log" -> <<"onLog">>
    [] type = "catchUpComplete" -> <<"onCatchUpComplete">>
    [] type = "pong" -> <<"onPong">>
    [] type = "error" -> <<"onServerError">>
    [] OTHER -> <<>>

\* JSON.parse(data) returns: the data is JSON.
parses(frame) == frame.type # "invalid"

\* A catch that hands the frame to the error handler.
droppedEffectsReported(frame) == <<"onError">>

\* The catch around JSON.parse: it returns, and nothing is called for the frame.
droppedEffects(frame) == <<>>

\* `payload.logId ?? payload.id` with the alias taken first.
logIdOfAliasFirst(frame) == asNumber(coalesce(frame.id, frame.logId))

\* asNumber(payload.logId ?? payload.id)
logIdOf(frame) == asNumber(coalesce(frame.logId, frame.id))

\* asNumber(payload.tick ?? payload.tickNumber)
tickOf(frame) == asNumber(coalesce(frame.tick, frame.tickNumber))

\* Whether maybeUpdateCursor(message) reaches cursorStore.set.
writesCursor(frame) ==
  /\ hasStore
  /\ asNumber(frame.scIndex) # Undef
  /\ asNumber(frame.logType) # Undef
  /\ logIdOf(frame) # Undef \/ tickOf(frame) # Undef

\* The cursor maybeUpdateCursor writes.
cursorOf(frame) ==
  IF logIdOf(frame) # Undef
  THEN [lastLogId |-> logIdOf(frame), lastTick |-> Undef]
  ELSE [lastLogId |-> Undef, lastTick |-> tickOf(frame)]

\* The branch of socket.onmessage that calls maybeUpdateCursor.
updatesCursor(type) == type = "log"

\* Whether a failed cursorStore.set is handed to config.onError: the call is made
\* without try/catch and its promise is dropped.
reportsWriteFailure(written) == FALSE

\* socket.onmessage: parse, and return on data that does not parse; pick the
\* handler by type, and for a log frame call maybeUpdateCursor after the handler.
\* A cursorStore.set that throws ends the
\* event handler; one that rejects leaves a rejected promise behind.
Message(frame, written) ==
  /\ socketState = "open"
  /\ events' = events + 1
  /\ lastFrame' = frame
  /\ dropped' = IF parses(frame) THEN dropped ELSE dropped + 1
  /\ IF updatesCursor(frame.type) /\ writesCursor(frame)
     THEN /\ effects' = handlerOf(frame.type) \o <<"set">>
          /\ writeOutcome' = written
          /\ store' = IF written = "ok"
                      THEN [store EXCEPT ![cursorKey(frame.scIndex, frame.logType)] =
                                            cursorOf(frame)]
                      ELSE store
          /\ uncaught' = IF written = "ok" THEN uncaught ELSE uncaught + 1
          /\ onErrorCalls' = IF written # "ok" /\ reportsWriteFailure(written)
                             THEN onErrorCalls + 1 ELSE onErrorCalls
     ELSE /\ written = "ok"
          /\ effects' = IF parses(frame) THEN handlerOf(frame.type)
                        ELSE droppedEffects(frame)
          /\ writeOutcome' = "none"
          /\ UNCHANGED <<store, uncaught, onErrorCalls>>
  /\ UNCHANGED <<subscriptions, configCursor, hasStore, socketState, open, pending, sent,
                 requested, bpc, withCursor, bootMessages, bootSent>>
  /\ UNCHANGED <<queueVars, confirmVars, sendVars, qbiVars, kitVars>>

\* ---- the outbound side: requests, open, bootstrap, close

\* Cursors a declared subscription may carry.
ExplicitCursors ==
  {NoCursor, [lastLogId |-> MaxVal, lastTick |-> Undef],
   [lastLogId |-> Undef, lastTick |-> MaxVal], [lastLogId |-> MaxVal, lastTick |-> MaxVal]}

\* config.subscriptions: up to MaxSubs subscriptions, the i-th for contract i.
SubscriptionLists ==
  UNION {[1..n -> ExplicitCursors] : n \in 0..MaxSubs}

declared(cursors) ==
  [i \in 1..Len(cursors) |->
     [scIndex |-> i, logType |-> 1,
      lastLogId |-> cursors[i].lastLogId, lastTick |-> cursors[i].lastTick]]

\* What the store may hold when the stream is created: for each contract nothing
\* or a log id cursor, as maybeUpdateCursor writes it for a frame with a log id.
StoredCursors ==
  {[k \in Keys |-> IF k[2] = 1 /\ k[1] \in held
                   THEN [lastLogId |-> MaxVal, lastTick |-> Undef] ELSE NoCursor] :
     held \in SUBSET ScIndexes}

\* createLogStream(config): nothing sent, the socket connecting.
LogInit ==
  /\ \E cursors \in SubscriptionLists : subscriptions = declared(cursors)
  /\ configCursor \in {NoCursor, [lastLogId |-> Undef, lastTick |-> MaxVal]}
  /\ hasStore \in BOOLEAN
  /\ store \in (IF hasStore THEN StoredCursors ELSE {[k \in Keys |-> NoCursor]})
  /\ socketState = "connecting"
  /\ open = FALSE
  /\ pending = <<>>
  /\ sent = <<>>
  /\ requested = <<>>
  /\ bpc = "idle"
  /\ withCursor = <<>>
  /\ bootMessages = <<>>
  /\ bootSent = 0
  /\ events = 0
  /\ lastFrame = NoFrame
  /\ effects = <<>>
  /\ writeOutcome = "none"
  /\ onErrorCalls = 0
  /\ uncaught = 0
  /\ dropped = 0

InitLog == LogInit /\ QueueIdle /\ ConfirmIdle /\ SendIdle /\ QbiIdle /\ KitIdle

NextLog ==
  \/ \E message \in UserMessages : Request(message)
  \/ Open
  \/ LookupResolved
  \/ LookupRejected
  \/ Close

SpecLog == InitLog /\ [][NextLog]_vars

\* ---- the inbound side: frames and the cursor store

\* What the store may hold from an earlier run of the stream: nothing, or a log id
\* cursor under one key.
EarlierCursors ==
  {[k \in Keys |-> NoCursor],
   [k \in Keys |-> IF k = <<1, 1>>
                   THEN [lastLogId |-> MaxVal, lastTick |-> Undef] ELSE NoCursor]}

\* createLogStream(config) without declared subscriptions, with or without a store.
CursorInit ==
  /\ LogInit
  /\ subscriptions = <<>>
  /\ configCursor = NoCursor
  /\ store \in EarlierCursors

InitCursor == CursorInit /\ QueueIdle /\ ConfirmIdle /\ SendIdle /\ QbiIdle /\ KitIdle

NextCursor ==
  \/ Open
  \/ \E frame \in (IF events < MaxFrames THEN Frames ELSE {}), written \in WriteOutcomes :
       Message(frame, written)
  \/ SocketError
  \/ Close

SpecCursor == InitCursor /\ [][NextCursor]_vars

\* ---- the inbound side: one frame after another

\* The frames of a run of several: one of each type, one of an unknown type, data
\* that is not JSON, and a log frame with a key and a log id.
ArrivalFrames ==
  OtherFrames \cup
    {[type |-> "log", scIndex |-> 1, logType |-> 1,
      logId |-> MaxVal, id |-> Undef, tick |-> Undef, tickNumber |-> Undef]}

NextFrames ==
  \/ Open
  \/ \E frame \in (IF events < MaxArrivals THEN ArrivalFrames ELSE {}),
        written \in WriteOutcomes :
       Message(frame, written)
  \/ SocketError
  \/ Close

SpecFrames == InitCursor /\ [][NextFrames]_vars

\* ================================================= QbiContractHandle.query

\* Byte lengths of a query input; inputSize of an entry, Undef when not declared.
ByteLengths == 0..MaxBytes
InputSizes == {Undef} \cup ByteLengths
\* file.contract.contractIndex, Undef when the contract file has none.
ContractIndexes == {Undef, 0, 1}
\* What the query input holds: inputBytes, an inputValue, or neither.
InputModes == {"bytes", "value", "neither"}
\* The codec resolved for the function: none, one whose encode throws, one that
\* encodes.
Codecs == {"none", "throws", "encodes"}

\* A guard that lets every length through.
sizeMismatchNever(inputSize, byteLength, allow) == FALSE

\* entry.inputSize !== undefined && entry.inputSize !== inputBytes.byteLength &&
\* !input.allowSizeMismatch
sizeMismatch(inputSize, byteLength, allow) ==
  inputSize # Undef /\ inputSize # byteLength /\ ~allow

\* !file.contract.contractIndex && file.contract.contractIndex !== 0
indexMissing(index) == index = Undef

\* getInputBytes(entry, input, codec): the error it throws, "none" if it returns.
getInputBytesError(mode, codec) ==
  IF mode = "bytes" THEN "none"
  ELSE IF mode = "neither" THEN "Error"
  ELSE IF codec = "none" THEN "QbiCodecMissingError"
  ELSE IF codec = "throws" THEN "QbiCodecError"
  ELSE "none"

\* handle.query(name, input), up to `await contracts.queryRaw(...)`: the entry
\* lookup, the contract index test, the input bytes, the size guard, the call.
Query(found, inputSize, mode, codec, byteLength, allow) ==
  /\ qpc \in {"idle", "done"}
  /\ queries < MaxQueries
  /\ queries' = queries + 1
  /\ allowSizeMismatch' = allow
  /\ entryInputSize' = IF found THEN inputSize ELSE Undef
  /\ IF ~found
     THEN /\ qpc' = "done"
          /\ queryOutcome' = "QbiEntryNotFoundError"
          /\ inputByteLength' = Undef
          /\ UNCHANGED rawCalls
     ELSE IF indexMissing(contractIndex)
     THEN /\ qpc' = "done"
          /\ queryOutcome' = "Error"
          /\ inputByteLength' = Undef
          /\ UNCHANGED rawCalls
     ELSE IF getInputBytesError(mode, codec) # "none"
     THEN /\ qpc' = "done"
          /\ queryOutcome' = getInputBytesError(mode, codec)
          /\ inputByteLength' = Undef
          /\ UNCHANGED rawCalls
     ELSE IF sizeMismatch(inputSize, byteLength, allow)
     THEN /\ qpc' = "done"
          /\ queryOutcome' = "RangeError"
          /\ inputByteLength' = byteLength
          /\ UNCHANGED rawCalls
     ELSE /\ qpc' = "awaitRaw"
          /\ queryOutcome' = "none"
          /\ inputByteLength' = byteLength
          /\ rawCalls' = rawCalls + 1
  /\ UNCHANGED contractIndex
  /\ UNCHANGED <<queueVars, confirmVars, sendVars, logVars, kitVars>>

\* contracts.queryRaw resolves: query returns the result.
QueryRawResolved ==
  /\ qpc = "awaitRaw"
  /\ qpc' = "done"
  /\ queryOutcome' = "result"
  /\ UNCHANGED <<queries, contractIndex, entryInputSize, inputByteLength,
                 allowSizeMismatch, rawCalls>>
  /\ UNCHANGED <<queueVars, confirmVars, sendVars, logVars, kitVars>>

\* contracts.queryRaw rejects: the error leaves query.
QueryRawRejected ==
  /\ qpc = "awaitRaw"
  /\ qpc' = "done"
  /\ queryOutcome' = "ContractQueryError"
  /\ UNCHANGED <<queries, contractIndex, entryInputSize, inputByteLength,
                 allowSizeMismatch, rawCalls>>
  /\ UNCHANGED <<queueVars, confirmVars, sendVars, logVars, kitVars>>

\* toHandle(file): a contract file with or without a contract index.
QbiInit ==
  /\ qpc = "idle"
  /\ queries = 0
  /\ contractIndex \in ContractIndexes
  /\ entryInputSize = Undef
  /\ inputByteLength = Undef
  /\ allowSizeMismatch = FALSE
  /\ queryOutcome = "none"
  /\ rawCalls = 0

InitQbi == QbiInit /\ QueueIdle /\ ConfirmIdle /\ SendIdle /\ LogIdle /\ KitIdle

NextQbi ==
  \/ \E found \in BOOLEAN, inputSize \in InputSizes, mode \in InputModes, codec \in Codecs,
        byteLength \in ByteLengths, allow \in BOOLEAN :
       Query(found, inputSize, mode, codec, byteLength, allow)
  \/ QueryRawResolved
  \/ QueryRawRejected

SpecQbi == InitQbi /\ [][NextQbi]_vars

\* ============================================================ qbi: procedure calls
\* The methods of a contract handle that hand a procedure call to config.transactions.
TxMethods == {"buildProcedureTransaction", "sendProcedure", "sendProcedureAndConfirm",
              "sendProcedureAndConfirmWithReceipt"}
ProcMethods == TxMethods \cup {"prepareProcedure"}

\* file.contract.contractId, or a contractPublicKeyHex of 32 bytes or of another length.
IdentitySources == {"contractId", "publicKeyHex", "publicKeyHexShort", "none"}

\* getContractIdentity(): the error it throws, "none" if it returns an identity.
getContractIdentityError(from) ==
  IF from \in {"contractId", "publicKeyHex"} THEN "none" ELSE "Error"

\* prepareProcedure: entry.inputSize !== undefined && entry.inputSize !== inputBytes.byteLength
procedureSizeMismatch(inputSize, byteLength) ==
  inputSize # Undef /\ inputSize # byteLength

\* prepareProcedure(name, inputBytes): the entry lookup, the contract index test and
\* the size guard; it returns the prepared call and hands nothing to transactions.
PrepareProcedure(found, inputSize, byteLength) ==
  /\ ppc \in {"idle", "done"}
  /\ procs < MaxProcs
  /\ procs' = procs + 1
  /\ procMethod' = "prepareProcedure"
  /\ ppc' = "done"
  /\ procInputSize' = IF found THEN inputSize ELSE Undef
  /\ procByteLength' = byteLength
  /\ procOutcome' =
       IF ~found THEN "QbiEntryNotFoundError"
       ELSE IF indexMissing(procContractIndex) THEN "Error"
       ELSE IF procedureSizeMismatch(inputSize, byteLength) THEN "RangeError"
       ELSE "prepared"
  /\ UNCHANGED <<transactionsConfigured, procContractIndex, contractIdentity, txCalls>>
  /\ UNCHANGED procFrame

\* buildProcedureTransaction, sendProcedure, sendProcedureAndConfirm and
\* sendProcedureAndConfirmWithReceipt, up to the call of config.transactions: the
\* transactions test, the entry lookup, the input bytes, the contract identity.
Procedure(method, found, inputSize, mode, codec, byteLength) ==
  /\ ppc \in {"idle", "done"}
  /\ procs < MaxProcs
  /\ procs' = procs + 1
  /\ procMethod' = method
  /\ procInputSize' = IF transactionsConfigured /\ found THEN inputSize ELSE Undef
  /\ IF ~transactionsConfigured
     THEN /\ ppc' = "done"
          /\ procOutcome' = "Error"
          /\ procByteLength' = Undef
          /\ UNCHANGED txCalls
     ELSE IF ~found
     THEN /\ ppc' = "done"
          /\ procOutcome' = "QbiEntryNotFoundError"
          /\ procByteLength' = Undef
          /\ UNCHANGED txCalls
     ELSE IF getInputBytesError(mode, codec) # "none"
     THEN /\ ppc' = "done"
          /\ procOutcome' = getInputBytesError(mode, codec)
          /\ procByteLength' = Undef
          /\ UNCHANGED txCalls
     ELSE IF getContractIdentityError(contractIdentity) # "none"
     THEN /\ ppc' = "done"
          /\ procOutcome' = getContractIdentityError(contractIdentity)
          /\ procByteLength' = byteLength
          /\ UNCHANGED txCalls
     ELSE /\ ppc' = "awaitTx"
          /\ procOutcome' = "none"
          /\ procByteLength' = byteLength
          /\ txCalls' = txCalls + 1
  /\ UNCHANGED <<transactionsConfigured, procContractIndex, contractIdentity>>
  /\ UNCHANGED procFrame

\* config.transactions resolves: the procedure call returns what it returned.
TransactionsResolved ==
  /\ ppc = "awaitTx"
  /\ ppc' = "done"
  /\ procOutcome' = "result"
  /\ UNCHANGED <<transactionsConfigured, procContractIndex, contractIdentity, procs,
                 procMethod, procInputSize, procByteLength, txCalls>>
  /\ UNCHANGED procFrame

\* config.transactions rejects: the error leaves the procedure call.
TransactionsRejected ==
  /\ ppc = "awaitTx"
  /\ ppc' = "done"
  /\ procOutcome' = "TransactionError"
  /\ UNCHANGED <<transactionsConfigured, procContractIndex, contractIdentity, procs,
                 procMethod, procInputSize, procByteLength, txCalls>>
  /\ UNCHANGED procFrame

\* toHandle(file): a contract file, with or without index and identity, of helpers
\* built with or without a transactions helper.
ProcInit ==
  /\ transactionsConfigured \in BOOLEAN
  /\ procContractIndex \in ContractIndexes
  /\ contractIdentity \in IdentitySources
  /\ ppc = "idle"
  /\ procs = 0
  /\ procMethod = "none"
  /\ procInputSize = Undef
  /\ procByteLength = Undef
  /\ procOutcome = "none"
  /\ txCalls = 0

InitProc ==
  /\ ProcInit
  /\ QueueIdle /\ ConfirmIdle /\ SendIdle /\ LogIdle /\ QbiIdle
  /\ RegistryIdle /\ RawIdle /\ VaultIdle /\ LockIdle /\ TickIdle
  /\ PersistIdle

NextProc ==
  \/ \E found \in BOOLEAN, inputSize \in InputSizes, byteLength \in ByteLengths :
       PrepareProcedure(found, inputSize, byteLength)
  \/ \E method \in TxMethods, found \in BOOLEAN, inputSize \in InputSizes,
        mode \in InputModes, codec \in Codecs, byteLength \in ByteLengths :
       Procedure(method, found, inputSize, mode, codec, byteLength)
  \/ TransactionsResolved
  \/ TransactionsRejected

SpecProc == InitProc /\ [][NextProc]_vars

\* ============================================================ qbi: registry and codecs
\* QbiFile: contract.name, contract.contractIndex (Undef when absent), and entries:
\* none, or one function or procedure.
QbiFiles ==
  [name : ContractNames, contractIndex : {Undef, 1},
   entries : {{}} \cup {{<<kind, entryName>>} : kind \in EntryKinds, entryName \in EntryNames}]

\* input.files of createQbiRegistry.
FileLists == UNION {[1..n -> QbiFiles] : n \in 0..MaxFiles}

\* QbiContractCodecs: the entry names under functions and under procedures.
ContractCodecs ==
  [named : {TRUE}, functions : SUBSET EntryNames, procedures : SUBSET EntryNames]

\* QbiCodecRegistry: for each contract name, its codecs, or NotNamed when it is not a key.
CodecRegistries == [ContractNames -> ContractCodecs \cup {NotNamed}]

\* byName after the first n files of the loop: byName.set(file.contract.name, file)
\* overwrites what an earlier file of that name had set.
RECURSIVE registryByName(_, _)
registryByName(list, n) ==
  IF n = 0 THEN [c \in ContractNames |-> 0]
  ELSE [registryByName(list, n - 1) EXCEPT ![list[n].name] = n]

\* byIndex after the first n files of the loop: set only when contractIndex is a number.
RECURSIVE registryByIndex(_, _)
registryByIndex(list, n) ==
  IF n = 0 THEN [i \in FileIndexes |-> 0]
  ELSE IF list[n].contractIndex = Undef THEN registryByIndex(list, n - 1)
  ELSE [registryByIndex(list, n - 1) EXCEPT ![list[n].contractIndex] = n]

\* createQbiRegistry(input): fills both maps from the files and returns them.
CreateQbiRegistry(list) ==
  /\ registryOutcome = "none"
  /\ files' = list
  /\ byName' = registryByName(list, Len(list))
  /\ byIndex' = registryByIndex(list, Len(list))
  /\ registryOutcome' = "registry"
  /\ UNCHANGED <<codecs, helpersOutcome, lookups, handle>>
  /\ UNCHANGED registryFrame

\* file.entries.find((e) => e.kind === kind && e.name === entryName)
hasEntry(file, kind, entryName) == <<kind, entryName>> \in file.entries

\* validateCodecEntries that looks at no entry.
validateCodecEntriesSkipped(file, names, kind) == TRUE

\* validateCodecEntries(file, codecs, kind, contractName) returns without throwing.
validateCodecEntries(file, names, kind) ==
  \A entryName \in names : hasEntry(file, kind, entryName)

\* validateCodecs(codecs, registry) returns without throwing.
validateCodecs(registry, list, named) ==
  \A n \in ContractNames :
    named[n].named =>
      /\ registry[n] # 0
      /\ validateCodecEntries(list[registry[n]], named[n].functions, "function")
      /\ validateCodecEntries(list[registry[n]], named[n].procedures, "procedure")

\* createQbiHelpers(config): validateCodecs runs first; the helpers are returned only
\* if it does not throw.
CreateQbiHelpers(named) ==
  /\ registryOutcome = "registry"
  /\ helpersOutcome = "none"
  /\ codecs' = named
  /\ helpersOutcome' =
       IF validateCodecs(byName, files, named) THEN "helpers" ELSE "QbiCodecValidationError"
  /\ UNCHANGED <<files, byName, byIndex, registryOutcome, lookups, handle>>
  /\ UNCHANGED registryFrame

\* getContract(nameOrIndex): the position of the file the registry holds for a name
\* (typeof nameOrIndex is not "number") or for an index, 0 when it holds none.
getContract(isNumber, name, index) == IF isNumber THEN byIndex[index] ELSE byName[name]

\* helpers.contract(nameOrIndex): the handle of the file, or the error of getContract.
\* Only returned helpers can be called.
Contract(isNumber, name, index) ==
  /\ helpersOutcome = "helpers"
  /\ lookups < MaxLookups
  /\ lookups' = lookups + 1
  /\ handle' = IF getContract(isNumber, name, index) = 0
                THEN [outcome |-> "Error", file |-> 0]
                ELSE [outcome |-> "handle", file |-> getContract(isNumber, name, index)]
  /\ UNCHANGED <<files, byName, byIndex, registryOutcome, codecs, helpersOutcome>>
  /\ UNCHANGED registryFrame

InitRegistry ==
  /\ RegistryIdle
  /\ QueueIdle /\ ConfirmIdle /\ SendIdle /\ LogIdle /\ QbiIdle
  /\ ProcIdle /\ RawIdle /\ VaultIdle /\ LockIdle /\ TickIdle
  /\ PersistIdle

NextRegistry ==
  \/ \E list \in FileLists : CreateQbiRegistry(list)
  \/ \E named \in CodecRegistries : CreateQbiHelpers(named)
  \/ \E isNumber \in BOOLEAN, name \in ContractNames, index \in FileIndexes :
       Contract(isNumber, name, index)

SpecRegistry == InitRegistry /\ [][NextRegistry]_vars

\* ============================================================ contracts: queryRaw
\* input.retries and config.defaultRetries.
RetryCounts == 0..MaxRetries
\* input.retryDelayMs ?? defaultRetryDelayMs: no delay, or a delay of one timer.
RetryDelays == {0, 1}
\* input.expectedOutputSize, Undef when it is not given.
ExpectedSizes == {Undef} \cup ByteLengths

\* shortResponse that never asks for a retry.
shortResponseNever(expected, length) == FALSE

\* shortResponse: expectedOutputSize is a finite number above 0 and the response is
\* shorter.
shortResponse(expected, length) ==
  expected # Undef /\ expected > 0 /\ length < expected

\* The top of the loop of queryRaw: the abort test, attempts++, the RPC call.
rawLoopTop(isAborted, made) ==
  IF isAborted
  THEN /\ rpc' = "done"
       /\ rawOutcome' = [kind |-> "ContractQueryAbortedError", responseLength |-> Undef,
                         attempts |-> 0]
       /\ attempts' = made
       /\ UNCHANGED rpcCalls
  ELSE /\ rpc' = "awaitRpc"
       /\ attempts' = made + 1
       /\ rpcCalls' = rpcCalls + 1
       /\ UNCHANGED rawOutcome

\* queryRaw(input), up to the first await: the defaults, the input bytes, the combined
\* signal, the first pass through the top of the loop.
QueryRaw(inputRetries, delay, expected, hasInput, isAborted) ==
  /\ rpc = "idle"
  /\ retries' = coalesce(inputRetries, defaultRetries)
  /\ retryDelayMs' = delay
  /\ expectedOutputSize' = expected
  /\ signalAborted' = isAborted
  /\ IF ~hasInput
     THEN /\ rpc' = "done"
          /\ rawOutcome' = [kind |-> "TypeError", responseLength |-> Undef, attempts |-> 0]
          /\ UNCHANGED <<attempts, rpcCalls>>
     ELSE rawLoopTop(isAborted, 0)
  /\ UNCHANGED <<defaultRetries, responses>>
  /\ UNCHANGED rawFrame

\* querySmartContract resolves with a response of the given length: queryRaw returns
\* it, or sleeps before the next attempt; a sleep of 0 ms is over at once.
RpcResolved(length) ==
  /\ rpc = "awaitRpc"
  /\ responses' = Append(responses, length)
  /\ IF ~shortResponse(expectedOutputSize, length) \/ attempts > retries
     THEN /\ rpc' = "done"
          /\ rawOutcome' = [kind |-> "result", responseLength |-> length, attempts |-> attempts]
          /\ UNCHANGED <<attempts, rpcCalls>>
     ELSE IF retryDelayMs <= 0
     THEN rawLoopTop(signalAborted, attempts)
     ELSE /\ rpc' = "sleep"
          /\ UNCHANGED <<attempts, rpcCalls, rawOutcome>>
  /\ UNCHANGED <<defaultRetries, retries, retryDelayMs, expectedOutputSize, signalAborted>>
  /\ UNCHANGED rawFrame

\* querySmartContract rejects: the error leaves queryRaw.
RpcRejected ==
  /\ rpc = "awaitRpc"
  /\ rpc' = "done"
  /\ rawOutcome' = [kind |-> "RpcError", responseLength |-> Undef, attempts |-> 0]
  /\ UNCHANGED <<defaultRetries, retries, retryDelayMs, expectedOutputSize, signalAborted,
                 attempts, responses, rpcCalls>>
  /\ UNCHANGED rawFrame

\* The timer of sleep fires: the loop goes round.
SleepResolved ==
  /\ rpc = "sleep"
  /\ rawLoopTop(signalAborted, attempts)
  /\ UNCHANGED <<defaultRetries, retries, retryDelayMs, expectedOutputSize, signalAborted,
                 responses>>
  /\ UNCHANGED rawFrame

\* The signal of the caller fires: a pending sleep rejects at once, a pending RPC
\* call is left to end.
RawAbort ==
  /\ rpc \in {"awaitRpc", "sleep"}
  /\ ~signalAborted
  /\ signalAborted' = TRUE
  /\ IF rpc = "sleep"
     THEN /\ rpc' = "done"
          /\ rawOutcome' = [kind |-> "ContractQueryAbortedError", responseLength |-> Undef,
                            attempts |-> 0]
     ELSE UNCHANGED <<rpc, rawOutcome>>
  /\ UNCHANGED <<defaultRetries, retries, retryDelayMs, expectedOutputSize, attempts,
                 responses, rpcCalls>>
  /\ UNCHANGED rawFrame

\* createContractHelpers(config): any default number of retries.
RawInit ==
  /\ defaultRetries \in RetryCounts
  /\ rpc = "idle"
  /\ retries = 0
  /\ retryDelayMs = 0
  /\ expectedOutputSize = Undef
  /\ signalAborted = FALSE
  /\ attempts = 0
  /\ responses = <<>>
  /\ rpcCalls = 0
  /\ rawOutcome = NoRawOutcome

InitRaw ==
  /\ RawInit
  /\ QueueIdle /\ ConfirmIdle /\ SendIdle /\ LogIdle /\ QbiIdle
  /\ ProcIdle /\ RegistryIdle /\ VaultIdle /\ LockIdle /\ TickIdle
  /\ PersistIdle

NextRaw ==
  \/ \E inputRetries \in {Undef} \cup RetryCounts, delay \in RetryDelays,
        expected \in ExpectedSizes, hasInput \in BOOLEAN, isAborted \in BOOLEAN :
       QueryRaw(inputRetries, delay, expected, hasInput, isAborted)
  \/ \E length \in ByteLengths : RpcResolved(length)
  \/ RpcRejected
  \/ SleepResolved
  \/ RawAbort

SpecRaw == InitRaw /\ [][NextRaw]_vars

\* ============================================================ seed vault
\* Seeds, and the identities identityFromSeed derives from them.
Seeds == {"s1", "s2"}
\* identityFromSeed(seed, seedIndex), for the default seedIndex.
identityFromSeed(seed) == IF seed = "s1" THEN "I1" ELSE "I2"
\* Names of entries: any text, the text of an identity included.
EntryRefs == {"main", "I1"}
\* Passphrases.
Passphrases == {"p1", "p2"}
\* The salt randomBytes gives createKdfParams: one no file has had before. The first
\* file of the path has salt 1, each rotation the salt after the one it replaces.
firstSalt == 1
nextSalt(salt) == salt + 1

\* deriveKey(passphrase, params): scrypt of the passphrase under the salt of params.
deriveKey(pass, salt) == [passphrase |-> pass, salt |-> salt]
\* encryptSeed(seed, key): AES-256-GCM under the key.
encryptSeed(seed, k) == [seed |-> seed, key |-> k]
\* decryptSeed(encrypted, key) returns: the tag verifies only under the key that
\* encrypted.
decrypts(encrypted, k) == encrypted.key = k
\* decryptSeed(encrypted, key), when it returns.
decryptSeed(encrypted, k) == encrypted.seed

\* Position of the entry of that name in the map, 0 when it has none.
entryOfName(list, name) ==
  IF \E i \in 1..Len(list) : list[i].name = name
  THEN CHOOSE i \in 1..Len(list) : list[i].name = name
  ELSE 0

\* findEntry that looks for the identity first.
findEntryIdentityFirst(list, ref) ==
  IF \E i \in 1..Len(list) : list[i].identity = ref
  THEN CHOOSE i \in 1..Len(list) :
         list[i].identity = ref /\ \A j \in 1..(i - 1) : list[j].identity # ref
  ELSE entryOfName(list, ref)

\* findEntry(ref): the entry of that name, else the first entry of that identity;
\* 0 when it throws VaultEntryNotFoundError.
findEntry(list, ref) ==
  IF entryOfName(list, ref) # 0 THEN entryOfName(list, ref)
  ELSE IF \E i \in 1..Len(list) : list[i].identity = ref
  THEN CHOOSE i \in 1..Len(list) :
         list[i].identity = ref /\ \A j \in 1..(i - 1) : list[j].identity # ref
  ELSE 0

\* Map.set(entry.name, entry): in place when the name is a key, appended otherwise.
mapSet(list, entry) ==
  IF entryOfName(list, entry.name) # 0
  THEN [list EXCEPT ![entryOfName(list, entry.name)] = entry]
  ELSE Append(list, entry)

\* writeVaultFile(path, {...file, entries}): the file after the rename.
vaultFile(salt, list) == [exists |-> TRUE, salt |-> salt, entries |-> list]

\* The trip of a seed starts when it is added through a handle whose key is still
\* the one of the passphrase it was opened with; it goes on when the handle is closed
\* after a save and when a handle is opened with that passphrase.
tripAfterAdd(name, seed) ==
  IF key = deriveKey(passphrase, header)
  THEN [stage |-> IF autoSave THEN "saved" ELSE "added", name |-> name, seed |-> seed,
        passphrase |-> passphrase]
  ELSE NoTrip
tripAfterClose == IF trip.stage = "saved" THEN [trip EXCEPT !.stage = "closed"] ELSE NoTrip
tripAfterOpen(pass) ==
  IF trip.stage = "closed" /\ trip.passphrase = pass
  THEN [trip EXCEPT !.stage = "reopened"] ELSE NoTrip

\* openSeedVault(input): reads the file, or creates an empty vault under a fresh salt
\* when there is none and create is set; derives the key from the passphrase and the
\* salt of the file. One handle is open at a time.
OpenSeedVault(pass, create, auto) ==
  /\ vpc \in {"none", "closed"}
  /\ opens < MaxOpens
  /\ opens' = opens + 1
  /\ IF ~disk.exists /\ ~create
     THEN /\ vaultOutcome' = [op |-> "open", kind |-> "VaultNotFoundError", value |-> "none"]
          /\ trip' = NoTrip
          /\ UNCHANGED <<disk, vpc, passphrase, autoSave, key, header, entries>>
     ELSE /\ disk' = IF disk.exists THEN disk ELSE vaultFile(firstSalt, <<>>)
          /\ vpc' = "open"
          /\ passphrase' = pass
          /\ autoSave' = auto
          /\ header' = disk'.salt
          /\ key' = deriveKey(pass, disk'.salt)
          /\ entries' = disk'.entries
          /\ vaultOutcome' = [op |-> "open", kind |-> "ok", value |-> "none"]
          /\ trip' = tripAfterOpen(pass)
  /\ UNCHANGED vclock
  /\ UNCHANGED imported
  /\ UNCHANGED vaultFrame

\* save(): writes the header of `file` and the entries of the map.
Save ==
  /\ vpc = "open"
  /\ disk' = vaultFile(header, entries)
  /\ vaultOutcome' = [op |-> "save", kind |-> "ok", value |-> "none"]
  /\ trip' = IF trip.stage = "added" THEN [trip EXCEPT !.stage = "saved"] ELSE trip
  /\ UNCHANGED <<vpc, opens, passphrase, autoSave, key, header, entries, vclock>>
  /\ UNCHANGED imported
  /\ UNCHANGED vaultFrame

\* A createdAt that is always the time of the call.
keptCreatedAtNow(list, name, at) == at

\* entries.get(name)?.createdAt ?? now
keptCreatedAt(list, name, at) ==
  IF entryOfName(list, name) # 0 THEN list[entryOfName(list, name)].createdAt ELSE at

\* addSeed({name, seed, overwrite}): refuses a name that is a key unless overwrite is
\* set; the entry keeps the createdAt of the entry it replaces; saves under autoSave.
AddSeed(name, seed, overwrite) ==
  /\ vpc = "open"
  /\ vclock <= MaxVaultOps
  /\ IF ~overwrite /\ entryOfName(entries, name) # 0
     THEN /\ vaultOutcome' = [op |-> "addSeed", kind |-> "VaultEntryExistsError", value |-> name]
          /\ UNCHANGED <<disk, entries, vclock, trip>>
     ELSE LET entry == [name |-> name,
                        identity |-> identityFromSeed(seed),
                        createdAt |-> keptCreatedAt(entries, name, vclock),
                        updatedAt |-> vclock,
                        encrypted |-> encryptSeed(seed, key)]
          IN /\ entries' = mapSet(entries, entry)
             /\ disk' = IF autoSave THEN vaultFile(header, entries') ELSE disk
             /\ vclock' = vclock + 1
             /\ vaultOutcome' = [op |-> "addSeed", kind |-> "ok", value |-> name]
             /\ trip' = tripAfterAdd(name, seed)
  /\ UNCHANGED <<vpc, opens, passphrase, autoSave, key, header>>
  /\ UNCHANGED imported
  /\ UNCHANGED vaultFrame

\* getSeed(ref): the seed of the entry findEntry gives, or the name of the error.
getSeed(list, k, ref) ==
  IF findEntry(list, ref) = 0 THEN "VaultEntryNotFoundError"
  ELSE IF ~decrypts(list[findEntry(list, ref)].encrypted, k) THEN "VaultInvalidPassphraseError"
  ELSE decryptSeed(list[findEntry(list, ref)].encrypted, k)

\* vault.getSeed(ref).
GetSeed(ref) ==
  /\ vpc = "open"
  /\ vaultOutcome' =
       [op |-> "getSeed",
        kind |-> IF getSeed(entries, key, ref) \in Seeds THEN "ok" ELSE getSeed(entries, key, ref),
        value |-> getSeed(entries, key, ref)]
  /\ UNCHANGED <<disk, vpc, opens, passphrase, autoSave, key, header, entries, vclock, trip>>
  /\ UNCHANGED imported
  /\ UNCHANGED vaultFrame

\* Position of the first entry decryptSeed throws for under the key, 0 if it
\* returns for all.
firstUndecryptable(list, k) ==
  IF \A i \in 1..Len(list) : decrypts(list[i].encrypted, k) THEN 0
  ELSE CHOOSE i \in 1..Len(list) :
         /\ ~decrypts(list[i].encrypted, k)
         /\ \A j \in 1..(i - 1) : decrypts(list[j].encrypted, k)

\* The map after the loop of rotatePassphrase: each entry is set again, encrypted
\* under the next key, as the loop reaches it; the loop ends where decryptSeed throws.
rotatedEntries(list, k, nextKey, at) ==
  LET stop == firstUndecryptable(list, k)
  IN [i \in 1..Len(list) |->
        IF stop = 0 \/ i < stop
        THEN [list[i] EXCEPT !.encrypted = encryptSeed(decryptSeed(list[i].encrypted, k), nextKey),
                             !.updatedAt = at]
        ELSE list[i]]

\* rotatePassphrase(newPassphrase): a fresh salt, the next key, the loop over the
\* entries; then the file, the key and the write, unless decryptSeed has thrown.
RotatePassphrase(newPassphrase) ==
  /\ vpc = "open"
  /\ vclock <= MaxVaultOps
  /\ vclock' = vclock + 1
  /\ entries' = rotatedEntries(entries, key, deriveKey(newPassphrase, nextSalt(header)), vclock)
  /\ IF firstUndecryptable(entries, key) # 0
     THEN /\ vaultOutcome' = [op |-> "rotatePassphrase", kind |-> "Error", value |-> "none"]
          /\ UNCHANGED <<disk, key, header>>
     ELSE /\ header' = nextSalt(header)
          /\ key' = deriveKey(newPassphrase, header')
          /\ disk' = vaultFile(header', entries')
          /\ vaultOutcome' = [op |-> "rotatePassphrase", kind |-> "ok", value |-> "none"]
  /\ trip' = NoTrip
  /\ UNCHANGED <<vpc, opens, passphrase, autoSave>>
  /\ UNCHANGED imported
  /\ UNCHANGED vaultFrame

\* Exports of a vault whose entries were all added under one passphrase: the header
\* and up to MaxImported entries of distinct names.
ExportedEntries(k) ==
  [name : EntryRefs, identity : {"I1", "I2"}, createdAt : {0}, updatedAt : {0},
   encrypted : [seed : Seeds, key : {k}]]
ExportsOf(k) ==
  {list \in UNION {[1..n -> ExportedEntries(k)] : n \in 0..MaxImported} :
     /\ \A i, j \in 1..Len(list) : list[i].name = list[j].name => i = j
     /\ \A i \in 1..Len(list) : list[i].identity = identityFromSeed(list[i].encrypted.seed)}
\* They come from another vault file, with a salt of its own.
VaultExports ==
  UNION {{vaultFile(nextSalt(firstSalt), list) :
            list \in ExportsOf(deriveKey(pass, nextSalt(firstSalt)))} : pass \in Passphrases}

\* The next map of importEncrypted after the first n entries of the source: each is
\* decrypted under the source key and set, encrypted under the key of the vault.
RECURSIVE importedEntries(_, _, _, _, _, _)
importedEntries(start, source, n, sourceKey, k, at) ==
  IF n = 0 THEN start
  ELSE mapSet(importedEntries(start, source, n - 1, sourceKey, k, at),
              [name |-> source[n].name,
               identity |-> source[n].identity,
               createdAt |-> source[n].createdAt,
               updatedAt |-> at,
               encrypted |-> encryptSeed(decryptSeed(source[n].encrypted, sourceKey), k)])

\* options?.sourcePassphrase ?? passphrase
importPassphrase(sourcePassphrase) ==
  IF sourcePassphrase = NoPassphrase THEN passphrase ELSE sourcePassphrase

\* An import that merges in every mode.
importStartMerge(mode, list) == list

\* nextEntries before the loop: empty in replace mode, a copy of the entries otherwise.
importStart(mode, list) == IF mode = "replace" THEN <<>> ELSE list

\* importEncrypted(source, {mode, sourcePassphrase}): the source key, the next map
\* (empty in replace mode, a copy of the entries in merge mode), then the entries are
\* cleared and filled from it; saves under autoSave. A decryptSeed that throws
\* leaves the entries as they are.
ImportEncrypted(source, mode, sourcePassphrase) ==
  /\ vpc = "open"
  /\ vclock <= MaxVaultOps
  /\ vclock' = vclock + 1
  /\ imported' = [mode |-> mode, sourcePassphrase |-> importPassphrase(sourcePassphrase),
                   source |-> source, before |-> entries]
  /\ LET sourceKey == deriveKey(importPassphrase(sourcePassphrase), source.salt)
     IN IF firstUndecryptable(source.entries, sourceKey) # 0
        THEN /\ vaultOutcome' = [op |-> "importEncrypted", kind |-> "Error", value |-> mode]
             /\ UNCHANGED <<disk, entries>>
        ELSE /\ entries' = importedEntries(importStart(mode, entries),
                                           source.entries, Len(source.entries), sourceKey,
                                           key, vclock)
             /\ disk' = IF autoSave THEN vaultFile(header, entries') ELSE disk
             /\ vaultOutcome' = [op |-> "importEncrypted", kind |-> "ok", value |-> mode]
  /\ trip' = NoTrip
  /\ UNCHANGED <<vpc, opens, passphrase, autoSave, key, header>>
  /\ UNCHANGED vaultFrame

\* close(): the handle is closed; what was not saved is lost with it.
CloseVault ==
  /\ vpc = "open"
  /\ vpc' = "closed"
  /\ vaultOutcome' = [op |-> "close", kind |-> "ok", value |-> "none"]
  /\ trip' = tripAfterClose
  /\ UNCHANGED <<disk, opens, passphrase, autoSave, key, header, entries, vclock>>
  /\ UNCHANGED imported
  /\ UNCHANGED vaultFrame

InitVault ==
  /\ VaultIdle
  /\ QueueIdle /\ ConfirmIdle /\ SendIdle /\ LogIdle /\ QbiIdle
  /\ ProcIdle /\ RegistryIdle /\ RawIdle /\ LockIdle /\ TickIdle
  /\ PersistIdle

NextVault ==
  \/ \E pass \in Passphrases, create \in BOOLEAN, auto \in BOOLEAN :
       OpenSeedVault(pass, create, auto)
  \/ Save
  \/ \E name \in EntryRefs, seed \in Seeds, overwrite \in BOOLEAN : AddSeed(name, seed, overwrite)
  \/ \E ref \in EntryRefs \cup {"I2"} : GetSeed(ref)
  \/ \E newPassphrase \in Passphrases : RotatePassphrase(newPassphrase)
  \/ CloseVault

SpecVault == InitVault /\ [][NextVault]_vars

\* A handle open on a vault that holds entries added earlier under its passphrase,
\* with one more operation to come.
ImportInit ==
  /\ vpc = "open"
  /\ opens = 1
  /\ passphrase \in Passphrases
  /\ autoSave \in BOOLEAN
  /\ header = firstSalt
  /\ key = deriveKey(passphrase, header)
  /\ entries \in ExportsOf(key)
  /\ disk = vaultFile(header, entries)
  /\ vclock = MaxVaultOps
  /\ vaultOutcome = NoVaultOutcome
  /\ trip = NoTrip
  /\ imported = NoImport

InitImport ==
  /\ ImportInit
  /\ QueueIdle /\ ConfirmIdle /\ SendIdle /\ LogIdle /\ QbiIdle
  /\ ProcIdle /\ RegistryIdle /\ RawIdle /\ LockIdle /\ TickIdle
  /\ PersistIdle

NextImport ==
  \/ \E source \in VaultExports, mode \in {"merge", "replace"},
        sourcePassphrase \in Passphrases \cup {NoPassphrase} :
       ImportEncrypted(source, mode, sourcePassphrase)
  \/ \E ref \in EntryRefs \cup {"I2"} : GetSeed(ref)

SpecImport == InitImport /\ [][NextImport]_vars

\* ============================================================ seed vault: the lock
\* retryMs of acquireLock, in units of 100 ms.
retryMs == 2
\* input.lockTimeoutMs ?? 0, in units of 100 ms.
LockTimeouts == {0, 3}
\* How the rest of openSeedVault goes once the lock is taken: the vault is read or
\* created; the file is missing and create is not set; the file does not parse; the
\* write of the new vault fails; the version is unsupported; deriveKey fails.
OpenRests == {"ok", "notFound", "unparsable", "writeFailed", "badVersion", "kdfFailed"}

\* The failures raised inside the try whose catch calls releaseLock: the read of
\* the file and parseVaultFile.
insideTry(rest) == rest \in {"notFound", "unparsable"}

\* The error openSeedVault throws for a failure.
openError(rest) ==
  CASE rest = "notFound" -> "VaultNotFoundError"
    [] rest = "unparsable" -> "VaultError: invalid vault file"
    [] rest = "writeFailed" -> "write error"
    [] rest = "badVersion" -> "VaultError: unsupported version"
    [] rest = "kdfFailed" -> "scrypt error"
    [] OTHER -> "none"

\* open(path, "w"): an open that does not fail on an existing file.
lockExistsNever(exists) == FALSE

\* open(path, "wx") fails with EEXIST.
lockExists(exists) == exists

\* openSeedVault(input) up to the first await: with lock set it enters acquireLock,
\* which reads the clock and issues open(path, "wx"); without, it takes no lock.
OpenLocked(p, lockEnabled, timeout) ==
  /\ lpc[p] \in {"idle", "closed", "failed"}
  /\ lockOpens[p] < MaxLockOpens
  /\ lockOpens' = [lockOpens EXCEPT ![p] = @ + 1]
  /\ lockTimeoutMs' = [lockTimeoutMs EXCEPT ![p] = timeout]
  /\ lockStart' = [lockStart EXCEPT ![p] = lclock]
  /\ lockAttempts' = [lockAttempts EXCEPT ![p] = 0]
  /\ lockError' = [lockError EXCEPT ![p] = "none"]
  /\ lockHandle' = [lockHandle EXCEPT ![p] = FALSE]
  /\ lpc' = [lpc EXCEPT ![p] = IF lockEnabled THEN "trying" ELSE "open"]
  /\ UNCHANGED <<lockFile, lockWake, lclock>>
  /\ UNCHANGED lockFrame

\* open(path, "wx") settles. It creates the lock file, and the rest of openSeedVault
\* returns the handle, or fails and releases the lock (inside the try), or fails and
\* leaves it (the first write, the version test, deriveKey); or the file exists and
\* acquireLock gives up or sets the timer of the retry.
AttemptLock(p, rest) ==
  /\ lpc[p] = "trying"
  /\ lockAttempts' = [lockAttempts EXCEPT ![p] = @ + 1]
  /\ IF ~lockExists(lockFile)
     THEN /\ lockFile' = ~insideTry(rest)
          /\ lockHandle' = [lockHandle EXCEPT ![p] = TRUE]
          /\ lpc' = [lpc EXCEPT ![p] = IF rest = "ok" THEN "open" ELSE "failed"]
          /\ lockError' = [lockError EXCEPT ![p] = openError(rest)]
          /\ UNCHANGED lockWake
     ELSE IF lockTimeoutMs[p] <= 0 \/ lclock - lockStart[p] >= lockTimeoutMs[p]
     THEN /\ lpc' = [lpc EXCEPT ![p] = "failed"]
          /\ lockError' = [lockError EXCEPT ![p] = "VaultError: locked"]
          /\ UNCHANGED <<lockFile, lockHandle, lockWake>>
     ELSE /\ lpc' = [lpc EXCEPT ![p] = "sleeping"]
          /\ lockWake' = [lockWake EXCEPT ![p] = lclock + retryMs]
          /\ UNCHANGED <<lockFile, lockHandle, lockError>>
  /\ UNCHANGED <<lockTimeoutMs, lockStart, lockOpens, lclock>>
  /\ UNCHANGED lockFrame

\* The timer of the retry fires, at its instant or later: the loop issues the next
\* open(path, "wx").
RetryLock(p) ==
  /\ lpc[p] = "sleeping"
  /\ lclock >= lockWake[p]
  /\ lpc' = [lpc EXCEPT ![p] = "trying"]
  /\ UNCHANGED <<lockFile, lockHandle, lockTimeoutMs, lockStart, lockWake, lockAttempts,
                 lockError, lockOpens, lclock>>
  /\ UNCHANGED lockFrame

\* close(): releaseLock unlinks the lock file when the handle took the lock.
CloseLocked(p) ==
  /\ lpc[p] = "open"
  /\ lpc' = [lpc EXCEPT ![p] = "closed"]
  /\ lockFile' = IF lockHandle[p] THEN FALSE ELSE lockFile
  /\ UNCHANGED <<lockHandle, lockTimeoutMs, lockStart, lockWake, lockAttempts, lockError,
                 lockOpens, lclock>>
  /\ UNCHANGED lockFrame

\* 100 ms pass.
LockTick ==
  /\ lclock < MaxLockTime
  /\ lclock' = lclock + 1
  /\ UNCHANGED <<lockFile, lpc, lockHandle, lockTimeoutMs, lockStart, lockWake, lockAttempts,
                 lockError, lockOpens>>
  /\ UNCHANGED lockFrame

InitLock ==
  /\ LockIdle
  /\ QueueIdle /\ ConfirmIdle /\ SendIdle /\ LogIdle /\ QbiIdle
  /\ ProcIdle /\ RegistryIdle /\ RawIdle /\ VaultIdle /\ TickIdle
  /\ PersistIdle

NextLock ==
  \/ \E p \in Openers, lockEnabled \in BOOLEAN, timeout \in LockTimeouts :
       OpenLocked(p, lockEnabled, timeout)
  \/ \E p \in Openers, rest \in OpenRests : AttemptLock(p, rest)
  \/ \E p \in Openers : RetryLock(p)
  \/ \E p \in Openers : CloseLocked(p)
  \/ LockTick

SpecLock == InitLock /\ [][NextLock]_vars

\* ============================================================ tick helpers
\* Offsets the guardrails, the default and an integer input take; an input may also
\* lie one below or one above them.
Offsets == 0..MaxOffset
OffsetInputs == -1..(MaxOffset + 1)

\* createTickHelpers(config) returns: no offset is negative and minOffset <= maxOffset.
\* defaultOffset is not compared with the other two.
tickConfigValid(min, default, max) ==
  /\ min >= 0
  /\ default >= 0
  /\ max >= 0
  /\ min <= max

\* A check of the upper guardrail alone.
offsetOutOfRangeAbove(offset, min, max) == offset > max

\* The two guards of getSuggestedTargetTick: offset < minOffset, offset > maxOffset.
offsetOutOfRange(offset, min, max) == offset < min \/ offset > max

\* getSuggestedTargetTick(input) up to its first await. The offset is input.offset,
\* or defaultOffset when it is not given; toBigint throws a TypeError on a number
\* that is not an integer; an offset outside the guardrails throws a RangeError;
\* otherwise rpc.live.tickInfo() is called.
GetSuggestedTargetTick(given, isInteger, value) ==
  /\ tpc \in {"idle", "done"}
  /\ tickCalls < MaxTickCalls
  /\ tickCalls' = tickCalls + 1
  /\ liveTick' = Undef
  /\ LET offset == IF given THEN value ELSE defaultOffset
     IN  IF given /\ ~isInteger
         THEN /\ tickOffset' = 0
              /\ tickInfoCalls' = 0
              /\ tickOutcome' = [kind |-> "TypeError", value |-> Undef]
              /\ tpc' = "done"
         ELSE /\ tickOffset' = offset
              /\ IF offsetOutOfRange(offset, minOffset, maxOffset)
                 THEN /\ tickInfoCalls' = 0
                      /\ tickOutcome' = [kind |-> "RangeError", value |-> Undef]
                      /\ tpc' = "done"
                 ELSE /\ tickInfoCalls' = 1
                      /\ tickOutcome' = NoTickOutcome
                      /\ tpc' = "awaitTick"
  /\ UNCHANGED <<minOffset, defaultOffset, maxOffset>>
  /\ UNCHANGED tickFrame

\* rpc.live.tickInfo() resolves: the call returns tick + offset.
TickInfoResolved(t) ==
  /\ tpc = "awaitTick"
  /\ liveTick' = t
  /\ tickOutcome' = [kind |-> "value", value |-> t + tickOffset]
  /\ tpc' = "done"
  /\ UNCHANGED <<minOffset, defaultOffset, maxOffset, tickCalls, tickOffset, tickInfoCalls>>
  /\ UNCHANGED tickFrame

\* rpc.live.tickInfo() rejects: the call rejects with the same error.
TickInfoRejected ==
  /\ tpc = "awaitTick"
  /\ tickOutcome' = [kind |-> "RpcError", value |-> Undef]
  /\ tpc' = "done"
  /\ UNCHANGED <<minOffset, defaultOffset, maxOffset, tickCalls, tickOffset, tickInfoCalls,
                 liveTick>>
  /\ UNCHANGED tickFrame

\* Tick helpers that createTickHelpers has returned, before any call.
TickInit ==
  /\ minOffset \in Offsets
  /\ defaultOffset \in Offsets
  /\ maxOffset \in Offsets
  /\ tickConfigValid(minOffset, defaultOffset, maxOffset)
  /\ tpc = "idle"
  /\ tickCalls = 0
  /\ tickOffset = 0
  /\ tickInfoCalls = 0
  /\ liveTick = Undef
  /\ tickOutcome = NoTickOutcome

InitTick ==
  /\ TickInit
  /\ QueueIdle /\ ConfirmIdle /\ SendIdle /\ LogIdle /\ QbiIdle
  /\ ProcIdle /\ RegistryIdle /\ RawIdle /\ VaultIdle /\ LockIdle
  /\ PersistIdle

NextTick ==
  \/ \E given \in BOOLEAN, isInteger \in BOOLEAN, value \in OffsetInputs :
       GetSuggestedTargetTick(given, isInteger, value)
  \/ \E t \in Ticks : TickInfoResolved(t)
  \/ TickInfoRejected

SpecTick == InitTick /\ [][NextTick]_vars

\* ============================================================ TxQueue: progress
\* The queue with its scheduling: a continuation of `await existing.done` runs once
\* the promise is settled, and every submit and every confirm callback settles.
QueueFairness ==
  \A id \in 1..MaxLiveCalls :
    /\ WF_vars(ResumeEnqueue(id))
    /\ WF_vars(SubmitResolved(id) \/ SubmitRejected(id))
    /\ WF_vars(ConfirmResolved(id) \/ ConfirmRejected(id))

\* enqueue(input), for as long as fewer than MaxLiveCalls calls have been made.
EnqueueLive(s, t) ==
  /\ Len(calls) < MaxLiveCalls
  /\ Enqueue(s, t)

NextQueueLive ==
  \/ \E s \in Sources, t \in Ticks : EnqueueLive(s, t)
  \/ \E id \in 1..MaxLiveCalls : ResumeEnqueue(id)
  \/ \E id \in 1..MaxLiveCalls : SubmitResolved(id)
  \/ \E id \in 1..MaxLiveCalls : SubmitRejected(id)
  \/ \E id \in 1..MaxLiveCalls : ConfirmResolved(id)
  \/ \E id \in 1..MaxLiveCalls : ConfirmRejected(id)

SpecQueueLive == InitQueue /\ [][NextQueueLive]_vars /\ QueueFairness

\* ============================================================ openSeedVault: persists in flight
\* One open handle, its callers, and the directory of its vault file. An addSeed
\* runs to its await of identityFromSeed, sets the entry when that resolves and, with
\* autoSave, saves; a save runs writeVaultFile: writeFile(path.tmp) opens the name
\* with truncation, writes the text and closes, then rename(path.tmp, path).

\* Length of JSON.stringify(file): the header and one record per entry; the records
\* of two entries are equally long.
fileLength(data) == 1 + Cardinality({n \in PersistNames : data[n] # 0})

\* What a file holds: `len` characters, the first of them the start of the text of
\* `data`. A file created or truncated holds nothing.
EmptyFile == [data |-> NoEntries, len |-> 0]

\* A write of the text of `data` at position 0 of a file: what lay beyond the end of
\* the text stays.
writeAtStart(content, data) ==
  [data |-> data,
   len |-> IF content.len > fileLength(data) THEN content.len ELSE fileLength(data)]

\* The file holds the whole text of one vault and nothing else.
Complete(content) == content.len = fileLength(content.data)

\* save up to its await: `updated` is the local file with the entries of now, and
\* writeVaultFile has called writeFile.
beginSave(op, data) == [op EXCEPT !.pc = "open", !.updated = data]

\* The handle openSeedVault returned for a new vault: the empty vault is at path.
PersistInit ==
  /\ handleEntries = NoEntries
  /\ handleFile = NoEntries
  /\ handleAutoSave \in BOOLEAN
  /\ ops = [c \in PersistCallers |-> NoPersistOp]
  /\ persistCalls = 0
  /\ inodes = <<writeAtStart(EmptyFile, NoEntries)>>
  /\ pathInode = 1
  /\ tmpInode = 0

\* addSeed({ name, seed, overwrite }) up to its first await: it throws when the name
\* has an entry and overwrite is not set, otherwise it awaits identityFromSeed.
AddSeedCall(c, name, seed, overwrite) ==
  /\ ops[c].pc = "idle"
  /\ persistCalls < MaxPersistCalls
  /\ persistCalls' = persistCalls + 1
  /\ ops' = [ops EXCEPT ![c] =
               [NoPersistOp EXCEPT !.op = "addSeed", !.name = name, !.seed = seed,
                  !.overwrite = overwrite,
                  !.pc = IF ~overwrite /\ handleEntries[name] # 0 THEN "idle" ELSE "identity",
                  !.result = IF ~overwrite /\ handleEntries[name] # 0
                             THEN "VaultEntryExistsError" ELSE "none"]]
  /\ UNCHANGED <<handleEntries, handleFile, handleAutoSave, inodes, pathInode, tmpInode>>
  /\ UNCHANGED persistFrame

\* identityFromSeed resolves: addSeed sets the entry and returns, or calls save first.
IdentityResolved(c) ==
  /\ ops[c].pc = "identity"
  /\ handleEntries' = [handleEntries EXCEPT ![ops[c].name] = ops[c].seed]
  /\ ops' = [ops EXCEPT ![c] =
               IF handleAutoSave THEN beginSave(@, handleEntries')
               ELSE [@ EXCEPT !.pc = "idle", !.result = "ok"]]
  /\ UNCHANGED <<handleFile, handleAutoSave, persistCalls, inodes, pathInode, tmpInode>>
  /\ UNCHANGED persistFrame

\* identityFromSeed rejects: addSeed rejects with the same error.
IdentityRejected(c) ==
  /\ ops[c].pc = "identity"
  /\ ops' = [ops EXCEPT ![c] = [@ EXCEPT !.pc = "idle", !.result = "Error"]]
  /\ UNCHANGED <<handleEntries, handleFile, handleAutoSave, persistCalls, inodes, pathInode,
                 tmpInode>>
  /\ UNCHANGED persistFrame

\* save() called on the handle.
SaveCall(c) ==
  /\ ops[c].pc = "idle"
  /\ persistCalls < MaxPersistCalls
  /\ persistCalls' = persistCalls + 1
  /\ ops' = [ops EXCEPT ![c] = beginSave([NoPersistOp EXCEPT !.op = "save"], handleEntries)]
  /\ UNCHANGED <<handleEntries, handleFile, handleAutoSave, inodes, pathInode, tmpInode>>
  /\ UNCHANGED persistFrame

\* writeFile(path.tmp) opens the name for writing: the file it refers to is
\* truncated, or a new file is created under the name.
TmpOpened(c) ==
  /\ ops[c].pc = "open"
  /\ IF tmpInode = 0
     THEN /\ inodes' = Append(inodes, EmptyFile)
          /\ tmpInode' = Len(inodes) + 1
     ELSE /\ inodes' = [inodes EXCEPT ![tmpInode] = EmptyFile]
          /\ UNCHANGED tmpInode
  /\ ops' = [ops EXCEPT ![c] = [@ EXCEPT !.pc = "write", !.fd = tmpInode']]
  /\ UNCHANGED <<handleEntries, handleFile, handleAutoSave, persistCalls, pathInode>>
  /\ UNCHANGED persistFrame

\* writeFile writes the text of `updated` through its descriptor and closes it;
\* writeVaultFile calls rename.
TmpWritten(c) ==
  /\ ops[c].pc = "write"
  /\ inodes' = [inodes EXCEPT ![ops[c].fd] = writeAtStart(@, ops[c].updated)]
  /\ ops' = [ops EXCEPT ![c] = [@ EXCEPT !.pc = "rename", !.fd = 0]]
  /\ UNCHANGED <<handleEntries, handleFile, handleAutoSave, persistCalls, pathInode, tmpInode>>
  /\ UNCHANGED persistFrame

\* rename(path.tmp, path): the name path takes the file of path.tmp, save sets the
\* local file and the call returns; without a file of that name rename fails and
\* the call rejects.
Renamed(c) ==
  /\ ops[c].pc = "rename"
  /\ IF tmpInode = 0
     THEN /\ ops' = [ops EXCEPT ![c] = [@ EXCEPT !.pc = "idle", !.result = "ENOENT"]]
          /\ UNCHANGED <<handleFile, pathInode, tmpInode>>
     ELSE /\ pathInode' = tmpInode
          /\ tmpInode' = 0
          /\ handleFile' = ops[c].updated
          /\ ops' = [ops EXCEPT ![c] = [@ EXCEPT !.pc = "idle", !.result = "ok"]]
  /\ UNCHANGED <<handleEntries, handleAutoSave, persistCalls, inodes>>
  /\ UNCHANGED persistFrame

InitPersist ==
  /\ PersistInit
  /\ QueueIdle /\ ConfirmIdle /\ SendIdle /\ LogIdle /\ QbiIdle
  /\ ProcIdle /\ RegistryIdle /\ RawIdle /\ VaultIdle /\ LockIdle /\ TickIdle

NextPersist ==
  \/ \E c \in PersistCallers, name \in PersistNames, seed \in PersistSeeds,
        overwrite \in BOOLEAN : AddSeedCall(c, name, seed, overwrite)
  \/ \E c \in PersistCallers : IdentityResolved(c)
  \/ \E c \in PersistCallers : IdentityRejected(c)
  \/ \E c \in PersistCallers : SaveCall(c)
  \/ \E c \in PersistCallers : TmpOpened(c)
  \/ \E c \in PersistCallers : TmpWritten(c)
  \/ \E c \in PersistCallers : Renamed(c)

SpecPersist == InitPersist /\ [][NextPersist]_vars

\* ============================================================ TxQueue claims

InFlight(s) ==
  {id \in Ids : calls[id].sourceIdentity = s /\ calls[id].status \in {"submitted", "confirming"}}

\* C1: for every source identity, under every policy, at every instant at most one
\* queue item of that source has status submitted or confirming.
C1_AtMostOneInFlight == \A s \in Sources : Cardinality(InFlight(s)) <= 1

\* C2: under waitForConfirm, whenever the submit of an item has been invoked, every
\* enqueue of the same source that arrived earlier has an item in a terminal status
\* (so items start in arrival order, each after its predecessors have ended).
C2_StartAfterEarlierTerminal ==
  policy = "waitForConfirm" =>
    \A i, j \in Ids :
      (i < j /\ calls[i].sourceIdentity = calls[j].sourceIdentity /\ calls[j].submitCalls > 0)
        => isTerminal(calls[i].status)

\* The step is the arrival of one enqueue call.
EnqueueStep == Len(calls') = Len(calls) + 1

\* C3: under replaceHigherTick, an enqueue against a source with an active item
\* supersedes it only if its targetTick is strictly greater; with an equal or lower
\* targetTick it is rejected with TxQueueError and the active item stays active with
\* its status unchanged.
C3_ReplaceOnlyHigherTick ==
  [][(policy = "replaceHigherTick" /\ EnqueueStep) =>
       LET id == Len(calls')
           new == calls'[id]
           s == new.sourceIdentity
           old == getActive(s)
       IN old # 0 =>
            IF new.targetTick > calls[old].targetTick
            THEN /\ calls'[old].status = "superseded"
                 /\ activeBySource'[s] = id
                 /\ new.status = "pending"
            ELSE /\ new.pc = "rejected"
                 /\ new.promise = "rejected"
                 /\ new.error = "TxQueueError"
                 /\ activeBySource'[s] = old
                 /\ calls'[old].status = calls[old].status
                 /\ ~isTerminal(calls'[old].status)]_vars

\* A lower-tick enqueue was rejected while the item that superseded an earlier one
\* is still active.
C3_Witness ==
  /\ policy = "replaceHigherTick"
  /\ \E r, a, x \in Ids :
       /\ calls[r].pc = "rejected"
       /\ a < r
       /\ getActive(calls[r].sourceIdentity) = a
       /\ calls[a].targetTick >= calls[r].targetTick
       /\ calls[x].status = "superseded"
       /\ calls[x].sourceIdentity = calls[a].sourceIdentity

\* C4: under reject, an enqueue for a source with an active item fails at once with
\* TxQueueError, its submit is not invoked, the history and the active item are left
\* as they were; an enqueue for a source with no active item is accepted.
C4_RejectPolicy ==
  [][(policy = "reject" /\ EnqueueStep) =>
       LET id == Len(calls')
           new == calls'[id]
           s == new.sourceIdentity
           old == getActive(s)
       IN IF old # 0
          THEN /\ new.pc = "rejected"
               /\ new.promise = "rejected"
               /\ new.error = "TxQueueError"
               /\ new.submitCalls = 0
               /\ new.status = "none"
               /\ itemsBySource' = itemsBySource
               /\ activeBySource' = activeBySource
               /\ calls'[old] = calls[old]
          ELSE /\ new.pc = "submit"
               /\ new.status = "pending"
               /\ new.submitCalls = 1
               /\ activeBySource'[s] = id
               /\ itemsBySource'[s] = Append(itemsBySource[s], id)]_vars

\* Under reject: a rejected enqueue beside the active item it ran into, and an
\* accepted enqueue for the same source after an earlier item has ended.
C4_Witness ==
  /\ policy = "reject"
  /\ \E r, a, e \in Ids :
       /\ calls[r].pc = "rejected"
       /\ getActive(calls[r].sourceIdentity) = a
       /\ e < a
       /\ calls[e].sourceIdentity = calls[a].sourceIdentity
       /\ isTerminal(calls[e].status)

\* The enqueue has passed the policy check: its item exists.
Accepted(id) == calls[id].status # "none"

ErrorOf(threw) == IF threw = "submit" THEN "SubmitError" ELSE "ConfirmError"

\* What holds of the promise of an accepted enqueue in every state.
PromiseSettlesOnce(id) ==
  /\ calls[id].promise # "rejected"
  /\ calls[id].resolves <= 1
  /\ calls[id].promise = "fulfilled" =>
       (calls[id].resolves = 1 /\ isTerminal(calls[id].resolvedWith)
          /\ calls[id].resolvedWith = calls[id].status)
  /\ calls[id].pc = "returned" => calls[id].promise = "fulfilled"

\* C5 as stated: the promise of an accepted enqueue never rejects and resolves once
\* with a terminal item, and an exception thrown by submit or confirm yields status
\* failed with that exception stored in error.
C5_ThrowAlwaysFails ==
  \A id \in Ids :
    Accepted(id) =>
      /\ PromiseSettlesOnce(id)
      /\ calls[id].threw # "none" =>
           (calls[id].status = "failed" /\ calls[id].error = ErrorOf(calls[id].threw))

\* C5 as amended: as above, but an exception thrown by submit or confirm after the
\* item was superseded leaves the status superseded and error unset; thrown before,
\* it yields failed with the exception stored in error.
C5_ThrowFailsUnlessSuperseded ==
  /\ [](\A id \in Ids : Accepted(id) => PromiseSettlesOnce(id))
  /\ [][\A id \in Ids :
          (calls[id].threw = "none" /\ calls'[id].threw # "none") =>
            IF calls[id].status = "superseded"
            THEN calls'[id].status = "superseded" /\ calls'[id].error = "none"
            ELSE /\ calls'[id].status = "failed"
                 /\ calls'[id].error = ErrorOf(calls'[id].threw)
                 /\ calls'[id].resolvedWith = "failed"]_vars

\* One item failed by a throwing callback, another superseded whose callback threw
\* afterwards.
C5_Witness ==
  \E f, x \in Ids :
    /\ calls[f].status = "failed" /\ calls[f].threw # "none"
    /\ calls[f].promise = "fulfilled"
    /\ calls[x].status = "superseded" /\ calls[x].threw # "none"

\* C6: the status of every item only moves forward along pending -> submitted ->
\* confirming -> confirmed | failed | superseded, and a terminal status never
\* changes again, also when the item's submit or confirm settles later.
C6_StatusMonotonic ==
  [][\A id \in Ids :
       /\ StatusRank(calls'[id].status) >= StatusRank(calls[id].status)
       /\ isTerminal(calls[id].status) => calls'[id].status = calls[id].status]_vars

\* A superseded item whose callback has settled since, and a confirmed item.
C6_Witness ==
  \E x, k \in Ids :
    /\ calls[x].status = "superseded" /\ calls[x].pc = "returned"
    /\ calls[k].status = "confirmed"

ItemsOf(s) == {itemsBySource[s][n] : n \in 1..Len(itemsBySource[s])}

\* C7: the active slot never holds an item in a terminal status, and once every
\* item of a source is terminal getActive of that source is undefined.
C7_SlotReleasedOnTerminal ==
  \A s \in Sources :
    /\ getActive(s) # 0 => ~isTerminal(calls[getActive(s)].status)
    /\ (\A id \in ItemsOf(s) : isTerminal(calls[id].status)) => getActive(s) = 0

\* A source whose items have all ended, in each of the three terminal statuses or
\* at least confirmed and failed, with a free slot.
C7_Witness ==
  \E s \in Sources :
    /\ getActive(s) = 0
    /\ \E a, b \in ItemsOf(s) :
         calls[a].status = "confirmed" /\ calls[b].status = "failed"

\* ================================================ confirmation engine claims

\* C8: the wait returns the record only if, during the call, a getLastProcessedTick
\* response with tickNumber >= targetTick was delivered before the fetch of that
\* record was issued.
C8_SuccessOnlyAfterTargetTick == outcome = "record" => fetchAfterTarget

\* The wait returned the record after it had polled the tick more than once.
C8_Witness == outcome = "record" /\ polls >= 2 /\ seenTarget

\* The step is the head of the loop run with the timeout elapsed and no abort.
TimeoutStep == cpc \in {"idle", "loop"} /\ cpc' \notin {"idle", "loop"} /\ ~aborted' /\ now > timeoutMs'

\* C9: the wait ends through its timeout branch only with the timeout elapsed, and
\* then with TxNotFoundError if and only if a getLastProcessedTick response >=
\* targetTick and, after it, at least one 404 of getTransactionByHash were delivered;
\* in every other case with TxConfirmationTimeoutError.
C9_NotFoundOrTimeout ==
  /\ [](/\ outcome \in {"TxNotFoundError", "TxConfirmationTimeoutError"} => now > timeoutMs
        /\ outcome = "TxNotFoundError" => seen404AfterTarget
        /\ outcome = "TxConfirmationTimeoutError" => ~seen404AfterTarget)
  /\ [][TimeoutStep =>
          outcome' = IF seen404AfterTarget THEN "TxNotFoundError"
                     ELSE "TxConfirmationTimeoutError"]_vars

\* The wait ended with TxNotFoundError.
C9_Witness == outcome = "TxNotFoundError" /\ seen404AfterTarget /\ now > timeoutMs

\* The step is the delivery of an answer of getTransactionByHash.
TxAnswerStep == cpc = "awaitTx" /\ cpc' # "awaitTx"

\* C10: a 404 of getTransactionByHash after the target tick was reached does not end
\* the wait: it is recorded and the wait sleeps one poll interval; after the sleep,
\* unless aborted or timed out, it polls again; and a record delivered by a later
\* poll ends the wait with that record.
C10_NotFoundIsRetried ==
  /\ [][(TxAnswerStep /\ lastResponse' = "404") =>
          /\ outcome' = "none"
          /\ sawNotFoundAfterTarget'
          /\ IF pollIntervalMs > 0
             THEN cpc' = "sleep" /\ wakeAt' = now + pollIntervalMs
             ELSE cpc' = "loop"]_vars
  /\ [][(cpc = "sleep" /\ cpc' = "loop") => now >= wakeAt]_vars
  /\ [][(cpc = "loop" /\ cpc' # "loop" /\ ~aborted /\ now <= timeoutMs) =>
          (cpc' = "awaitTick" /\ polls' = polls + 1 /\ outcome' = "none")]_vars
  /\ [][(TxAnswerStep /\ lastResponse' = "record") =>
          (cpc' = "done" /\ outcome' = "record")]_vars

\* The wait returned the record after a 404 that followed the target tick.
C10_Witness == outcome = "record" /\ sawNotFoundAfterTarget /\ seen404AfterTarget

\* ================================================= cancellation of the wait

\* A step that begins a polling iteration: the call itself, or the loop coming back
\* from a sleep.
IterationStep == cpc \in {"idle", "loop"} /\ cpc' \notin {"idle", "loop"}

\* The signal fires while the wait is sleeping.
AbortInSleepStep == cpc = "sleep" /\ ~aborted /\ aborted'

\* C11: if the signal has fired when a polling iteration begins, or fires during the
\* sleep between two polls, the wait fails with TxConfirmationAbortedError, whatever
\* the clock and the not-found flag say; the sleep ends in the same step, before its
\* timer; and no RPC call is issued from then on.
C11_AbortWins ==
  [][ /\ (IterationStep /\ aborted') =>
           /\ cpc' = "done"
           /\ outcome' = "TxConfirmationAbortedError"
           /\ polls' = polls
      /\ AbortInSleepStep =>
           /\ cpc' = "done"
           /\ outcome' = "TxConfirmationAbortedError"
           /\ polls' = polls
           /\ now' = now
      /\ outcome = "TxConfirmationAbortedError" =>
           /\ outcome' = outcome
           /\ cpc' = "done"
           /\ polls' = polls
    ]_vars

\* An iteration that began after the timeout, with a 404 seen after the target tick
\* and the signal fired during an RPC call, ended as Aborted.
C11_Witness ==
  /\ outcome = "TxConfirmationAbortedError"
  /\ firedAt = "awaitTx"
  /\ now > timeoutMs
  /\ reachedTargetTick /\ sawNotFoundAfterTarget

\* C12: once getTransactionByHash has returned the record the wait has resolved with
\* it, whether or not the signal had fired during the call, and a signal that fires
\* later leaves that outcome as it is.
C12_SuccessStands ==
  [][ /\ (cpc = "awaitTx" /\ lastResponse' = "record" /\ cpc' # cpc) =>
           outcome' = "record"
      /\ outcome = "record" =>
           /\ outcome' = "record"
           /\ cpc' = "done"
    ]_vars

\* The signal fired after the wait had resolved with the record.
C12_Witness == outcome = "record" /\ firedAt = "done" /\ aborted

\* C13: an RPC call of the wait that is in flight once the signal has fired ends
\* with an error instead of delivering the server's answer.
C13_AbortCancelsRpc ==
  [][ (cpc \in {"awaitTick", "awaitTx"} /\ aborted /\ cpc' # cpc) =>
        lastResponse' = "error"
    ]_vars

\* ==================================================== sendAndConfirm claims

\* C14: when the helpers were given a queue, a sendAndConfirm that has reached the
\* broadcast has an item of its source identity in the queue.
C14_SendGoesThroughQueue ==
  (txQueueConfigured /\ spc \in {"broadcast", "confirm"}) =>
    itemsBySource[sendSource] # <<>>

\* C15: the confirmation wait that follows a broadcast is given the transaction id
\* the broadcast endpoint returned.
C15_WaitKeyedOnNetworkTxId == spc = "confirm" => waitTxId = broadcastTxId

\* ======================================================== log stream claims

\* No declared subscription has a cursor of its own or one in the store.
NoCursorAnywhere ==
  \A i \in 1..Len(subscriptions) :
    /\ subscriptions[i].lastLogId = Undef
    /\ subscriptions[i].lastTick = Undef
    /\ hasStore => store[<<subscriptions[i].scIndex, subscriptions[i].logType>>] = NoCursor

\* The batch frames among a sequence of outbound messages.
BatchFrames(messages) == {i \in 1..Len(messages) : messages[i].batch}

\* C16: with two or more declared subscriptions, none with a cursor of its own or a
\* stored one, the bootstrap issues exactly one message, a subscribe with a
\* subscriptions array of one entry for each declared subscription, and no subscribe
\* for a single subscription; the socket is passed it once if it is still open
\* when the lookups end, and never more than once.
C16_BatchBootstrap ==
  (Len(subscriptions) >= 2 /\ NoCursorAnywhere) =>
    /\ Cardinality(BatchFrames(sent)) <= 1
    /\ bpc # "done" => BatchFrames(sent) = {} /\ bootMessages = <<>>
    /\ bpc = "done" =>
         /\ Len(bootMessages) = 1
         /\ bootMessages[1].action = "subscribe"
         /\ bootMessages[1].batch
         /\ bootMessages[1].scIndex = Undef
         /\ bootMessages[1].subscriptions =
              [i \in 1..Len(subscriptions) |->
                 <<subscriptions[i].scIndex, subscriptions[i].logType>>]
         /\ socketState = "open" =>
              /\ Cardinality(BatchFrames(sent)) = 1
              /\ \A i \in BatchFrames(sent) : sent[i] = bootMessages[1]
              /\ Len(sent) = Len(requested) + 1

\* A stream with a store that holds nothing for its two subscriptions has sent the
\* batch, among messages of its user.
C16_Witness ==
  /\ Len(subscriptions) >= 2 /\ NoCursorAnywhere /\ hasStore
  /\ bpc = "done" /\ socketState = "open"
  /\ requested # <<>>
  /\ BatchFrames(sent) # {}

\* C17: nothing is passed to the socket before it opens, the messages requested
\* until then are queued and passed on open in the order of the requests, and a
\* bootstrap that ends while the socket is open has been passed to the socket, once.
C17_QueueUntilOpenThenBootstrapOnce ==
  [][ /\ socketState = "connecting" => (sent = <<>> /\ pending = requested)
      /\ (socketState = "connecting" /\ socketState' = "open") => sent' = requested
      /\ bootSent' <= 1
      /\ (bpc = "lookup" /\ bpc' \in {"done", "failed"} /\ open') => bootSent' = 1
    ]_vars

\* A socket event that is a message.
FrameStep == events' = events + 1 /\ lastFrame'.type # "none"

\* A frame carries a key when scIndex and logType are numbers.
HasKey(frame) == frame.scIndex \in ScIndexes /\ frame.logType \in LogTypes

\* A payload carries a log id as logId, or as id when it has no logId; and a tick
\* as tick, or as tickNumber when it has no tick.
CarriesLogId(frame) ==
  frame.logId \in LogVals \/ (frame.logId = Undef /\ frame.id \in LogVals)

CarriesTick(frame) ==
  frame.tick \in LogVals \/ (frame.tick = Undef /\ frame.tickNumber \in LogVals)

CarriedCursor(frame) ==
  IF CarriesLogId(frame)
  THEN [lastLogId |-> IF frame.logId \in LogVals THEN frame.logId ELSE frame.id,
        lastTick |-> Undef]
  ELSE [lastLogId |-> Undef,
        lastTick |-> IF frame.tick \in LogVals THEN frame.tick ELSE frame.tickNumber]

\* C18: with a cursor store, a log frame that has a key and carries a log id or a
\* tick has onLog called and then cursorStore.set, and a set that succeeds changes
\* the store at the frame's key only, to {lastLogId} if a log id is carried and to
\* {lastTick} otherwise; every other frame leaves the store alone and makes no set
\* call, a log frame among them still having onLog called.
C18_CursorWrittenAfterOnLog ==
  [][ FrameStep =>
        IF /\ hasStore
           /\ lastFrame'.type = "log"
           /\ HasKey(lastFrame')
           /\ CarriesLogId(lastFrame') \/ CarriesTick(lastFrame')
        THEN /\ effects' = <<"onLog", "set">>
             /\ writeOutcome' # "none"
             /\ writeOutcome' = "ok" =>
                  store' = [store EXCEPT ![<<lastFrame'.scIndex, lastFrame'.logType>>] =
                                            CarriedCursor(lastFrame')]
             /\ writeOutcome' # "ok" => store' = store
        ELSE /\ store' = store
             /\ writeOutcome' = "none"
             /\ effects' = IF lastFrame'.type = "log" THEN <<"onLog">> ELSE effects'
             /\ \A i \in 1..Len(effects') : effects'[i] # "set"
    ]_vars

\* A frame with an id, no logId and a tick has written {lastLogId} under its key,
\* next to a cursor the store already held under another key.
C18_Witness ==
  /\ lastFrame.type = "log"
  /\ lastFrame.logId = Undef /\ lastFrame.id \in LogVals /\ lastFrame.tick \in LogVals
  /\ effects = <<"onLog", "set">> /\ writeOutcome = "ok"
  /\ HasKey(lastFrame)
  /\ store[<<lastFrame.scIndex, lastFrame.logType>>] =
       [lastLogId |-> lastFrame.id, lastTick |-> Undef]
  /\ \E k \in Keys : k # <<lastFrame.scIndex, lastFrame.logType>> /\ store[k] # NoCursor

\* C19: a cursorStore.set that throws or rejects has the error handler called, after
\* the handler of the frame.
C19_WriteFailureReported ==
  [][ (FrameStep /\ writeOutcome' \in {"threw", "rejected"}) =>
        /\ onErrorCalls' = onErrorCalls + 1
        /\ effects'[1] = "onLog"
    ]_vars

\* ============================================================== qbi claims

\* A call of handle.query.
QueryStep == queries' = queries + 1

\* C20: a query of a function that declares inputSize = n, whose input bytes were
\* materialized with a length other than n and which does not allow a size
\* mismatch, ends with a RangeError in the step of the call, and contracts.queryRaw
\* is not called for it, then or later.
C20_SizeGuard ==
  [][ /\ ( /\ QueryStep
           /\ entryInputSize' # Undef
           /\ inputByteLength' # Undef
           /\ inputByteLength' # entryInputSize'
           /\ ~allowSizeMismatch' ) =>
             /\ queryOutcome' = "RangeError"
             /\ qpc' = "done"
             /\ rawCalls' = rawCalls
      /\ (queryOutcome = "RangeError" /\ ~QueryStep) =>
             /\ rawCalls' = rawCalls
             /\ queryOutcome' = "RangeError"
    ]_vars

\* After a query that went through, a query with too many bytes for a declared
\* inputSize of 0 ended with a RangeError and no second queryRaw call.
C20_Witness ==
  /\ queryOutcome = "RangeError"
  /\ entryInputSize = 0 /\ inputByteLength > 0 /\ ~allowSizeMismatch
  /\ queries = 2 /\ rawCalls = 1

\* ============================================================ qbi procedure claims

\* The last procedure call named an entry that declares inputSize and materialized
\* input bytes of another length.
ProcedureMismatch ==
  /\ procInputSize # Undef
  /\ procByteLength # Undef
  /\ procByteLength # procInputSize

\* C21: when the procedure entry declares inputSize and the materialized input bytes
\* have a different length, buildProcedureTransaction, sendProcedure and
\* sendProcedureAndConfirm[WithReceipt] hand nothing to the transactions helper: the
\* call is not awaiting it and has not returned its result.
C21_ProcedureSizeGuard ==
  (procMethod \in TxMethods /\ ProcedureMismatch) => ppc = "done" /\ procOutcome # "result"

\* ============================================================ qbi registry claims

\* No two files of the list share a contract name.
NamesUnique ==
  \A i, j \in 1..Len(files) : files[i].name = files[j].name => i = j

\* No two files of the list share a contract index that is present.
IndexesUnique ==
  \A i, j \in 1..Len(files) :
    (files[i].contractIndex # Undef /\ files[i].contractIndex = files[j].contractIndex) => i = j

\* C22: createQbiRegistry returns a registry only when the contract names of the
\* files are unique and the contract indexes that are present are unique.
C22_DuplicatesRejected ==
  registryOutcome = "registry" => NamesUnique /\ IndexesUnique

\* The interface registry has an entry of that kind and name for the contract.
RegistryHas(n, kind, entryName) ==
  byName[n] # 0 /\ <<kind, entryName>> \in files[byName[n]].entries

\* The codec registry names a contract, a function or a procedure that the interface
\* registry has no entry for.
CodecsNameMissing ==
  \E n \in ContractNames :
    /\ codecs[n].named
    /\ \/ byName[n] = 0
       \/ \E e \in codecs[n].functions : ~RegistryHas(n, "function", e)
       \/ \E e \in codecs[n].procedures : ~RegistryHas(n, "procedure", e)

\* C23: when createQbiHelpers is given a codec registry that names a contract, a
\* function or a procedure the interface registry has no entry for, it fails with
\* QbiCodecValidationError, and no call has been made through helpers.
C23_CodecsValidatedAtConstruction ==
  (helpersOutcome # "none" /\ CodecsNameMissing) =>
    /\ helpersOutcome = "QbiCodecValidationError"
    /\ lookups = 0
    /\ handle = NoHandle

\* A codec registry naming a procedure the file only has as a function was refused.
C23_Witness ==
  /\ helpersOutcome = "QbiCodecValidationError"
  /\ \E n \in ContractNames :
       /\ codecs[n].named
       /\ byName[n] # 0
       /\ codecs[n].functions = {}
       /\ \E e \in codecs[n].procedures :
            RegistryHas(n, "function", e) /\ ~RegistryHas(n, "procedure", e)

\* ============================================================ queryRaw claims

\* The response is shorter than an expectedOutputSize that is set.
TooShort(length) ==
  expectedOutputSize # Undef /\ expectedOutputSize > 0 /\ length < expectedOutputSize

\* C24: queryRaw issues at most retries + 1 querySmartContract calls; every call after
\* the first follows a response shorter than the expectedOutputSize that is set; the
\* attempts it returns is the number of calls made; and the response it returns is the
\* last one delivered, which is the first that is long enough or else the one of call
\* retries + 1.
C24_BoundedRetries ==
  /\ rpc # "idle" => rpcCalls <= retries + 1
  /\ \A i \in 1..Len(responses) : i < rpcCalls => TooShort(responses[i])
  /\ rawOutcome.kind = "result" =>
       /\ rawOutcome.attempts = rpcCalls
       /\ rpcCalls = Len(responses)
       /\ rawOutcome.responseLength = responses[Len(responses)]
       /\ \/ ~TooShort(responses[Len(responses)])
          \/ rpcCalls = retries + 1

\* queryRaw returned a response that is still too short after using up two retries.
C24_Witness ==
  /\ rawOutcome.kind = "result"
  /\ retries = MaxRetries
  /\ rawOutcome.attempts = MaxRetries + 1
  /\ TooShort(rawOutcome.responseLength)

\* ============================================================ seed vault claims

\* The step is a rotatePassphrase call that failed.
RotateFailedStep ==
  /\ vclock' = vclock + 1
  /\ vaultOutcome'.op = "rotatePassphrase"
  /\ vaultOutcome'.kind = "Error"

\* C25: a rotatePassphrase that fails on a decryption leaves the vault as it was: the
\* entries in memory, the active key and the file on disk are unchanged, and every
\* reference gives through the handle what it gave before the call.
C25_RotateAllOrNothing ==
  [][RotateFailedStep =>
       /\ entries' = entries
       /\ key' = key
       /\ disk' = disk
       /\ \A ref \in EntryRefs \cup {"I2"} :
            getSeed(entries', key', ref) = getSeed(entries, key, ref)]_vars

\* C27 as stated: after open, addSeed(name, s), save and close, a fresh open of the
\* path with the same passphrase gives s for getSeed(name) and for
\* getSeed(identity of s).
C27_RoundTrip ==
  trip.stage = "reopened" =>
    /\ getSeed(entries, key, trip.name) = trip.seed
    /\ getSeed(entries, key, identityFromSeed(trip.seed)) = trip.seed

\* Another entry of the vault is named by the identity of the seed, or has it.
IdentityShadowed ==
  \E i \in 1..Len(entries) :
    /\ entries[i].name # trip.name
    /\ \/ entries[i].name = identityFromSeed(trip.seed)
       \/ entries[i].identity = identityFromSeed(trip.seed)

\* C27: after open, addSeed(name, s), save and close, a fresh open of the path with
\* the same passphrase gives s for getSeed(name), and gives s for
\* getSeed(identity of s) when no other entry of the vault is named by that identity
\* or has it.
C27_RoundTripUnshadowed ==
  trip.stage = "reopened" =>
    /\ getSeed(entries, key, trip.name) = trip.seed
    /\ ~IdentityShadowed => getSeed(entries, key, identityFromSeed(trip.seed)) = trip.seed

\* The reopened vault has given the added seed for a getSeed, next to another entry.
C27_Witness ==
  /\ trip.stage = "reopened"
  /\ Len(entries) = 2
  /\ ~IdentityShadowed
  /\ vaultOutcome = [op |-> "getSeed", kind |-> "ok", value |-> trip.seed]

\* The names of the entries of a map.
namesOf(list) == {list[i].name : i \in 1..Len(list)}

\* The seed the entry of that name decrypts to under the key.
seedOfName(list, k, name) ==
  IF entryOfName(list, name) = 0 THEN "VaultEntryNotFoundError"
  ELSE IF ~decrypts(list[entryOfName(list, name)].encrypted, k) THEN "VaultInvalidPassphraseError"
  ELSE decryptSeed(list[entryOfName(list, name)].encrypted, k)

\* The last import was of an export made under the passphrase the import used.
ImportedUnderSamePassphrase ==
  /\ imported.mode # "none"
  /\ \A i \in 1..Len(imported.source.entries) :
       imported.source.entries[i].encrypted.key =
         deriveKey(imported.sourcePassphrase, imported.source.salt)

\* C28: after importing an export made under the same passphrase, in merge mode the
\* entry names are those of the entries before the import and of the export, in
\* replace mode exactly those of the export; every imported name decrypts under the
\* key of the vault to the seed it has in the export, and in merge mode every other
\* entry is as it was.
C28_ImportMergeReplace ==
  ImportedUnderSamePassphrase =>
    LET source == imported.source.entries
        sourceKey == deriveKey(imported.sourcePassphrase, imported.source.salt)
    IN /\ namesOf(entries) =
            IF imported.mode = "merge" THEN namesOf(imported.before) \cup namesOf(source)
            ELSE namesOf(source)
       /\ \A i \in 1..Len(source) :
            seedOfName(entries, key, source[i].name) = decryptSeed(source[i].encrypted, sourceKey)
       /\ imported.mode = "merge" =>
            \A i \in 1..Len(imported.before) :
              imported.before[i].name \notin namesOf(source) =>
                entries[entryOfName(entries, imported.before[i].name)] = imported.before[i]

\* A replace import of one entry into a vault that held an entry of another name.
C28_Witness ==
  /\ ImportedUnderSamePassphrase
  /\ imported.mode = "replace"
  /\ Len(imported.source.entries) = 1
  /\ Len(imported.before) = 1
  /\ imported.before[1].name # imported.source.entries[1].name
  /\ Len(entries) = 1

\* C29: addSeed with a name that is a key of the entries fails, without overwrite,
\* with VaultEntryExistsError and leaves the entries and the file as they are; with
\* overwrite the entry of that name decrypts to the new seed and has the createdAt of
\* the entry it replaced.
C29_AddSeedExisting ==
  [][\A name \in EntryRefs, seed \in Seeds, overwrite \in BOOLEAN :
       (AddSeed(name, seed, overwrite) /\ entryOfName(entries, name) # 0) =>
         IF ~overwrite
         THEN /\ vaultOutcome'.kind = "VaultEntryExistsError"
              /\ entries' = entries
              /\ disk' = disk
         ELSE /\ vaultOutcome'.kind = "ok"
              /\ namesOf(entries') = namesOf(entries)
              /\ seedOfName(entries', key', name) = seed
              /\ entries'[entryOfName(entries', name)].createdAt =
                   entries[entryOfName(entries, name)].createdAt]_vars

\* An entry was overwritten: it was updated after it was created.
C29_Witness ==
  /\ vaultOutcome.op = "addSeed"
  /\ vaultOutcome.kind = "ok"
  /\ \E i \in 1..Len(entries) :
       /\ entries[i].name = vaultOutcome.value
       /\ entries[i].createdAt < entries[i].updatedAt

\* ============================================================ vault lock claims

\* The open handles that took the lock of the path.
LockHolders == {p \in Openers : lpc[p] = "open" /\ lockHandle[p]}

\* The step ends the openSeedVault of p with the locked error.
LockedStep(p) == lockError[p] # "VaultError: locked" /\ lockError'[p] = "VaultError: locked"

\* C26: at most one open handle holds the lock of the path. An openSeedVault fails
\* with the locked error only on finding the lock file: at its first attempt when
\* lockTimeoutMs is 0, otherwise once lockTimeoutMs has passed since it started,
\* after attempts that are 200 ms apart or more; an attempt that finds no lock file
\* takes the lock; and the close of the holder removes the lock file.
C26_LockExclusive ==
  /\ [](Cardinality(LockHolders) <= 1)
  /\ [][\A p \in Openers :
          /\ LockedStep(p) =>
               /\ lockFile
               /\ IF lockTimeoutMs[p] = 0 THEN lockAttempts'[p] = 1
                  ELSE lclock - lockStart[p] >= lockTimeoutMs[p]
          /\ (lpc[p] = "trying" /\ lpc'[p] = "sleeping") => lockWake'[p] = lclock + 2
          /\ (lpc[p] = "sleeping" /\ lpc'[p] = "trying") => lclock >= lockWake[p]
          /\ (lpc[p] = "trying" /\ lpc'[p] # "trying" /\ ~lockFile) => lockHandle'[p]
          /\ (p \in LockHolders /\ lpc'[p] = "closed") => ~lockFile']_vars

\* An opener that found the path locked took the lock at a retry, after the holder
\* had closed.
C26_Witness ==
  \E p, q \in Openers :
    /\ p # q
    /\ lpc[q] = "closed"
    /\ lockHandle[q]
    /\ p \in LockHolders
    /\ lockAttempts[p] = 2

\* ============================================================ tick helper claims

\* The last getSuggestedTargetTick call read an integer offset, given or defaulted.
TickOffsetRead == tpc # "idle" /\ tickOutcome.kind # "TypeError"

\* C30: a getSuggestedTargetTick call whose offset is below minOffset or above
\* maxOffset ends with a RangeError and has issued no tickInfo call; a call whose
\* offset is within the two has issued exactly one tickInfo call, and when that one
\* resolves the call returns its tick plus the offset.
C30_OffsetGuardBeforeRpc ==
  TickOffsetRead =>
    IF tickOffset < minOffset \/ tickOffset > maxOffset
    THEN /\ tpc = "done"
         /\ tickOutcome.kind = "RangeError"
         /\ tickInfoCalls = 0
    ELSE /\ tickInfoCalls = 1
         /\ tickOutcome.kind \in {"none", "value", "RpcError"}
         /\ tickOutcome.kind = "value" => tickOutcome.value = liveTick + tickOffset
         /\ tickOutcome.kind = "none" <=> tpc = "awaitTick"

\* The second call on the helpers was refused for an offset below minOffset, with no
\* tickInfo call issued.
C30_Witness ==
  /\ tickCalls = 2
  /\ tickOffset < minOffset
  /\ tickOutcome.kind = "RangeError"
  /\ tickInfoCalls = 0

\* ============================================================ TxQueue: supersession

\* The step makes item id superseded.
SupersededStep(id) ==
  /\ id \in Ids
  /\ calls[id].status # "superseded"
  /\ calls'[id].status = "superseded"

\* C31: under replaceHigherTick, the step that supersedes an active item fires its
\* abort signal, resolves its enqueue promise with status superseded and makes the
\* superseding item, still pending, the active item of the source; and at every
\* instant the item getActive reports for a source is not terminal, so the old and
\* the new item are never active together.
C31_SupersedeAtomic ==
  /\ [](policy = "replaceHigherTick" =>
          \A s \in Sources :
            getActive(s) # 0 =>
              /\ ~isTerminal(calls[getActive(s)].status)
              /\ \A id \in Ids :
                   (calls[id].sourceIdentity = s /\ id # getActive(s))
                     => calls[id].status \in Terminal \cup {"none"})
  /\ [][\A id \in 1..MaxCalls :
          SupersededStep(id) =>
            /\ policy = "replaceHigherTick"
            /\ getActive(calls[id].sourceIdentity) = id
            /\ calls'[id].signalAborted
            /\ calls'[id].promise = "fulfilled"
            /\ calls'[id].resolvedWith = "superseded"
            /\ activeBySource'[calls[id].sourceIdentity] = Len(calls')
            /\ Len(calls') = Len(calls) + 1
            /\ calls'[Len(calls')].status = "pending"
            /\ calls'[Len(calls')].targetTick > calls[id].targetTick]_vars

\* An item was superseded while confirming and its successor is the active item.
C31_Witness ==
  \E id \in Ids :
    /\ calls[id].status = "superseded"
    /\ calls[id].signalAborted
    /\ calls[id].resolvedWith = "superseded"
    /\ calls[id].pc = "confirm"
    /\ getActive(calls[id].sourceIdentity) > id
    /\ calls[getActive(calls[id].sourceIdentity)].status = "pending"

SourceUntouched(o) ==
  /\ activeBySource'[o] = activeBySource[o]
  /\ itemsBySource'[o] = itemsBySource[o]
  /\ \A id \in Ids : calls[id].sourceIdentity = o => calls'[id] = calls[id]
  /\ \A id \in 1..Len(calls') : calls'[id].sourceIdentity = o => id \in Ids

\* C40: under every policy each step of the queue works on one source and leaves
\* the slot, the history and the items of every other source as they were; and an
\* enqueue for a source whose slot is free creates its item, takes the slot and
\* calls submit in that step, whatever the other sources hold.
C40_SourcesIndependent ==
  /\ [][\E s \in Sources : \A o \in Sources \ {s} : SourceUntouched(o)]_vars
  /\ [][EnqueueStep =>
          LET c == calls'[Len(calls')]
          IN  getActive(c.sourceIdentity) = 0 =>
                /\ c.pc = "submit"
                /\ c.status = "pending"
                /\ c.submitCalls = 1
                /\ activeBySource'[c.sourceIdentity] = Len(calls')]_vars

\* The two sources have one active item each, and a further enqueue was refused or
\* made to wait for one of them.
C40_Witness ==
  /\ \A s \in Sources : getActive(s) # 0
  /\ getActive("A") # getActive("B")
  /\ Len(calls) = 3
  /\ calls[3].pc \in {"awaitDone", "rejected"}

\* ============================================================ TxQueue: progress claims

\* The enqueue call id was made and was not refused by the policy.
AcceptedCall(id) == id \in Ids /\ calls[id].pc # "rejected"

\* C39: when every submit and confirm callback settles, the promise of every
\* accepted enqueue is eventually fulfilled with a terminal item, no enqueue stays
\* suspended at `await existing.done`, and an occupied slot eventually becomes free.
C39_EveryEnqueueSettles ==
  /\ \A id \in 1..MaxLiveCalls :
       AcceptedCall(id) ~> (/\ id \in Ids
                            /\ calls[id].promise = "fulfilled"
                            /\ isTerminal(calls[id].resolvedWith)
                            /\ calls[id].pc = "returned")
  /\ \A id \in 1..MaxLiveCalls :
       (id \in Ids /\ calls[id].pc = "awaitDone")
         ~> (id \in Ids /\ calls[id].pc # "awaitDone")
  /\ \A s \in Sources : (getActive(s) # 0) ~> (getActive(s) = 0)

\* Under waitForConfirm an enqueue waited for the active item of its source, and
\* both items have ended, with the slot free.
C39_Witness ==
  /\ policy = "waitForConfirm"
  /\ Len(calls) = 2
  /\ calls[2].awaits = 1
  /\ \A id \in Ids : calls[id].pc = "returned" /\ calls[id].promise = "fulfilled"
  /\ \A s \in Sources : getActive(s) = 0

\* ============================================ confirmation engine: other RPC errors

\* The step is the failure of the RPC call the wait is suspended on, with an error
\* that is not the 404 of getTransactionByHash.
RpcFailedStep ==
  /\ cpc \in {"awaitTick", "awaitTx"}
  /\ cpc' # cpc
  /\ lastResponse' = "error"

\* C33: an error of getLastProcessedTick, and an error of getTransactionByHash other
\* than the RpcError with status 404, ends the wait in the step in which it
\* arrives, with that error: no further poll is made, also when the timeout has
\* passed, the target was reached with a 404 seen, or the signal has fired; and
\* the outcome of a wait that has ended stays what it is.
C33_OtherErrorsPropagate ==
  /\ [][RpcFailedStep =>
          /\ cpc' = "done"
          /\ outcome' = "RpcError"
          /\ polls' = polls]_vars
  /\ [][cpc = "done" => (cpc' = "done" /\ outcome' = outcome /\ polls' = polls)]_vars
  /\ [](outcome = "RpcError" => (cpc = "done" /\ lastResponse = "error"))

\* getTransactionByHash failed with another error after a 404, when the timeout
\* had passed and the signal had fired: the wait ended with that error.
C33_Witness ==
  /\ cpc = "done"
  /\ outcome = "RpcError"
  /\ reachedTargetTick
  /\ sawNotFoundAfterTarget
  /\ aborted
  /\ firedAt = "awaitTx"
  /\ timedOut

\* ============================================ log stream: bootstrap with cursors

\* The cursor a declared subscription resolves to: its own lastLogId / lastTick if
\* it has either, otherwise what the store holds under its key, otherwise none.
ResolvedCursor(sub) ==
  IF sub.lastLogId # Undef \/ sub.lastTick # Undef
  THEN [lastLogId |-> sub.lastLogId, lastTick |-> sub.lastTick]
  ELSE IF hasStore THEN store[<<sub.scIndex, sub.logType>>]
  ELSE NoCursor

AnyCursorResolved ==
  \E i \in 1..Len(subscriptions) : ResolvedCursor(subscriptions[i]) # NoCursor

\* messages holds part as a run of consecutive elements.
HoldsRun(messages, part) ==
  \E k \in 0..(Len(messages) - Len(part)) :
    \A i \in 1..Len(part) : messages[k + i] = part[i]

\* C34: when some declared subscription resolves to a cursor, a bootstrap whose
\* lookups have all resolved issues one subscribe for each declared subscription,
\* in the order of the declaration, the i-th for the scIndex and logType of the
\* i-th subscription with the cursor that subscription resolves to (lastLogId, or
\* lastTick when it has no lastLogId) and nothing of another subscription or of the
\* store when the subscription has a cursor of its own; the socket, if open then,
\* is passed them in that order; and no batch is issued at any time.
C34_PerSubscriptionBootstrap ==
  AnyCursorResolved =>
    /\ BatchFrames(sent) = {} /\ BatchFrames(pending) = {} /\ BatchFrames(bootMessages) = {}
    /\ bpc # "done" => bootMessages = <<>>
    /\ bpc = "done" =>
         /\ Len(bootMessages) = Len(subscriptions)
         /\ \A i \in 1..Len(subscriptions) :
              LET sub == subscriptions[i]
                  cursor == ResolvedCursor(sub)
              IN  bootMessages[i] =
                    [action |-> "subscribe", batch |-> FALSE,
                     scIndex |-> sub.scIndex, logType |-> sub.logType,
                     lastLogId |-> cursor.lastLogId,
                     lastTick |-> IF cursor.lastLogId = Undef THEN cursor.lastTick
                                  ELSE Undef,
                     subscriptions |-> <<>>]
         /\ IF bootSent = 1 THEN HoldsRun(sent, bootMessages)
            ELSE HoldsRun(pending, bootMessages)

\* Two subscriptions were bootstrapped on an open socket: the first with a tick of
\* its own while the store holds a log id under its key, the second with the log id
\* the store holds for it.
C34_Witness ==
  /\ Len(subscriptions) = 2
  /\ hasStore
  /\ subscriptions[1].lastLogId = Undef /\ subscriptions[1].lastTick # Undef
  /\ store[<<1, 1>>] # NoCursor
  /\ subscriptions[2].lastLogId = Undef /\ subscriptions[2].lastTick = Undef
  /\ store[<<2, 1>>] # NoCursor
  /\ bpc = "done" /\ bootSent = 1 /\ socketState = "open"
  /\ Len(sent) >= 2

\* ============================================ log stream: frames that do not parse

\* C35: a frame that is not JSON has no handler invoked and no cursor written for
\* it, and leaves the socket open; every frame, also one that arrives after such a
\* frame, has the handler of its type invoked in the step in which it arrives, before
\* anything is done for a later frame, so handlers run in the order of arrival.
C35_BadFrameDropped ==
  [][FrameStep =>
       /\ socketState' = socketState
       /\ open' = open
       /\ IF lastFrame'.type = "invalid"
          THEN /\ effects' = <<>>
               /\ store' = store
               /\ onErrorCalls' = onErrorCalls
               /\ uncaught' = uncaught
               /\ dropped' = dropped + 1
          ELSE /\ dropped' = dropped
               /\ IF lastFrame'.type \in MessageTypes
                  THEN /\ effects' # <<>>
                       /\ effects'[1] = handlerOf(lastFrame'.type)[1]
                       /\ \A i \in 2..Len(effects') : effects'[i] = "set"
                  ELSE effects' = <<>>]_vars

\* A frame that did not parse was dropped, and the log frame that arrived after it
\* went to onLog.
C35_Witness ==
  /\ dropped = 1
  /\ events = 2
  /\ lastFrame.type = "log"
  /\ effects[1] = "onLog"
  /\ socketState = "open"

\* ============================================================ vault open claims

\* C38: an openSeedVault that fails after it has taken the lock removes the lock
\* file it created, so the lock file exists only while an open handle holds it.
C38_FailedOpenReleasesLock == lockFile => LockHolders # {}

\* ============================================================ vault persist claims

\* C36: at every instant the file at path holds the whole text of one vault, the
\* previous one or a new one, and nothing else, also while two saves of the handle
\* are in flight.
C36_PathHoldsCompleteVault == pathInode # 0 => Complete(inodes[pathInode])

\* The last call of the caller was an addSeed without overwrite and it has ended.
AddedWithoutOverwrite(c) ==
  /\ ops[c].op = "addSeed"
  /\ ~ops[c].overwrite
  /\ ops[c].pc = "idle"

\* C37: of two addSeed calls of one name without overwrite on one handle at most
\* one succeeds (no entry is ever removed, so two calls that both passed the test
\* of the name were in flight together, while the name had no entry).
C37_OneAddSeedPerName ==
  \A c, d \in PersistCallers :
    (c # d /\ AddedWithoutOverwrite(c) /\ AddedWithoutOverwrite(d) /\ ops[c].name = ops[d].name)
      => ~(ops[c].result = "ok" /\ ops[d].result = "ok")

====
